---- MODULE Spec2Model ----
(***************************************************************************)
(* A model of the management API of neura-call-center: the APIKey entity,  *)
(* the Auth dependency, the API-key and call routers, and the rate-limit   *)
(* identity function.                                                      *)
(*                                                                         *)
(* Time is a discrete clock `now`.  Optional (None-able) values are        *)
(* sequences of length at most one: None is <<>> and a present value v is  *)
(* <<v>>.  Primary keys of api_keys and calls are the positions of the     *)
(* rows in the sequences that hold the tables (no code path deletes a row).*)
(***************************************************************************)
EXTENDS Integers, Sequences, FiniteSets, TLC

\* ---------------------------------------------------------------- bounds
MaxTime == 1
MaxKeys == 2
MaxCalls == 1
\* the clock values APIKey.is_valid is evaluated at
MaxClock == 3
\* the clients (models) constructed for one provider object
MaxClients == 2
\* inbound messages of one /stream/direct connection, events of the agent's
\* stream in one turn, inbound events of one /stream/twilio connection
MaxEvents == 3
MaxStream == 2
MaxFrames == 22
MaxSessions == 2
MaxRows == 2
MaxPayloads == 11
MaxVendorEvents == 3
MaxAudio == 2
MaxChunks == 3
MaxFallbacks == 2

\* ------------------------------------------------------- optional values
None == <<>>
Some(v) == <<v>>
Val(o) == o[1]

\* --------------------------------------------------------------- inputs
\* values secrets.token_hex(32) can produce
Secrets == {"k1", "k2"}
Names == {"acme"}
Phones == {"+15550001"}
IPs == {"10.0.0.5"}
\* X-API-Key header of a request: absent, empty, unknown, or a secret
Headers == {None, Some(""), Some("zz")} \cup {Some(s) : s \in Secrets}
\* requested expiry of a new key
Expiries == {None} \cup {Some(t) : t \in 0..(MaxTime - 1)}
\* remote addresses and key names of the requests get_identifier is applied to
Addrs == {"10.0.0.5", "10.0.0.6", "10.0.0.7"}
StateNames == {"acme", "beta"}
\* outcome of the store during Auth: no fault, or execute / commit raising
AuthFaults == {"none", "execute", "commit"}

\* core/config.py: Environment, and the defaults of Settings
Environment == {"development", "staging", "production"}
Settings(app_env, cors_enabled, cache_enabled) ==
    [app_env |-> app_env, cors_enabled |-> cors_enabled,
     cache_enabled |-> cache_enabled]
DefaultSettings == Settings("development", TRUE, TRUE)

\* providers/*: the fields of a provider object.  client is the client (for
\* whisper: the model) the object holds, None or the number of the object
\* constructed; created counts the clients constructed for this provider;
\* loading counts the initialize() calls waiting for whisper.load_model
Provider(kind, client, initialized, created, loading) ==
    [kind |-> kind, client |-> client, _initialized |-> initialized,
     created |-> created, loading |-> loading]
\* the provider classes, and the object __init__ leaves
Kinds == {"deepgram", "whisper", "elevenlabs", "openai", "twilio"}
NewProvider(kind) == Provider(kind, None, FALSE, 0, 0)

\* agents/call_agent.py: one invocation of the compiled graph.  status is
\* idle (not invoked), running, returned or raised; node is the node the
\* graph runs next; state is the CallCenterState; step counts the nodes
\* that have run; input holds the arguments of invoke
Invocation(status, node, state, step, input, error) ==
    [status |-> status, node |-> node, state |-> state, step |-> step,
     input |-> input, error |-> error]
CallCenterState(messages, customer_id, call_id) ==
    [messages |-> messages, customer_id |-> customer_id, call_id |-> call_id]
NoInvocation ==
    Invocation("idle", "START", CallCenterState(<<>>, <<>>, <<>>), 0, <<>>, "")

\* providers/*/factory.py: one call of a fallback accessor
\* (get_stt_provider_with_fallback, get_tts_provider_with_fallback).
\* status is idle (not called), trying, returned or raised; next is the
\* position in the chain of the candidate tried next; attempts lists the
\* candidates tried so far with what became of each; result is the
\* provider returned; error is the message of the exception raised
Access(family, status, next, attempts, result, error) ==
    [family |-> family, status |-> status, next |-> next,
     attempts |-> attempts, result |-> result, error |-> error]
NoAccess == Access("none", "idle", 1, <<>>, <<>>, "")

\* api/routers/streaming.py: one WebSocket connection and its handler
\* object.  endpoint is none (no connection), direct or twilio; status is
\* open while the read loop runs, disconnected after the peer closed and
\* failed after an exception ended the loop; read counts the
\* inbound messages read; turn is the handling in progress, if any; out
\* lists the messages sent to the peer, each with the number (cause) of
\* the inbound message whose handling sent it; runs lists the calls of
\* process_audio; the other fields are the attributes of
\* DirectStreamHandler and TwilioMediaStreamHandler
Connection(endpoint, status) ==
    [endpoint |-> endpoint, status |-> status, read |-> 0, turn |-> <<>>,
     out |-> <<>>, session_id |-> <<>>, stt_provider |-> <<>>,
     tts_provider |-> <<>>, agent |-> <<>>, stream_sid |-> <<>>,
     call_sid |-> <<>>, audio_buffer |-> <<>>, runs |-> <<>>]
NoConnection == Connection("none", "closed")

\* core/database.py: the sessions handed out so far
NoSessions == <<>>

\* models/conversation.py, models/claim.py: the rows of the tables
\* conversations, messages and claims, and the outcome of the last
\* unit of work on them
Outcome(op, id, error, cascaded) ==
    [op |-> op, id |-> id, error |-> error, cascaded |-> cascaded]
Rows(conversations, messages, claims, calls_, outcome) ==
    [conversations |-> conversations, messages |-> messages,
     claims |-> claims, calls |-> calls_, outcome |-> outcome]
NoRows == Rows({}, {}, {}, {}, Outcome("", 0, "", {}))

\* providers/stt: no call of transcribe_stream has been made
NoStream == [provider |-> "none", status |-> "idle"]

VARIABLES
    api_keys,   \* table api_keys: sequence of APIKey rows
    calls,      \* table calls: sequence of Call rows
    now,        \* the clock
    req,        \* the request handled last
    resp,       \* the response sent last
    log,        \* the log record written last
    shown,      \* shown[i]: number of responses that carried the secret of key i
    is_valid_result,  \* the result of the last APIKey.is_valid() call, if any
    identifier,       \* the result of the last get_identifier() call, if any
    served,     \* served[id]: requests of identity id served in this minute
    hits,       \* the limiter's storage: hits[id] counted in this minute
    settings,   \* core/config.py: the Settings instance of the process
    provider,   \* one STT, TTS or telephony provider object
    agent,      \* one invocation of CallCenterAgent.graph
    access,     \* one call of a provider fallback accessor
    conn,       \* one WebSocket connection with its handler
    sessions,   \* the database sessions handed out
    orm,        \* the rows of conversations, messages and claims
    stream      \* one call of a provider's transcribe_stream

\* the state outside the management API
\* the state of the streaming side
more == <<access, conn, sessions, orm, stream>>
ext == <<settings, provider, agent, more>>
aux == <<is_valid_result, identifier, served, hits, ext>>
vars == <<api_keys, calls, now, req, resp, log, shown, aux>>

\* ------------------------------------------------------------ APIKey row
APIKey(key, name, expires_at, t) ==
    [key |-> key, name |-> name, is_active |-> TRUE,
     expires_at |-> expires_at, last_used_at |-> None, created_at |-> t]

\* is_valid with the expiry instant itself counted as expired
is_valid_expiry_inclusive(k, t) ==
    IF ~k.is_active THEN FALSE
    ELSE IF k.expires_at # None /\ t >= Val(k.expires_at) THEN FALSE
    ELSE TRUE

\* APIKey.is_valid at clock value t
is_valid(k, t) ==
    IF ~k.is_active THEN FALSE
    ELSE IF k.expires_at # None /\ t > Val(k.expires_at) THEN FALSE
    ELSE TRUE

\* Python truthiness of an Optional[str]
Truthy(o) == o # None /\ Val(o) # ""

\* select(APIKey).where(APIKey.key == s).scalar_one_or_none(): row id or 0
KeyIdOf(s) ==
    IF \E i \in 1..Len(api_keys) : api_keys[i].key = s
    THEN CHOOSE i \in 1..Len(api_keys) : api_keys[i].key = s
    ELSE 0

\* a log record: the event text and the key name bound to it, if any
LogRec(event, key_name) == [event |-> event, key_name |-> key_name]

\* ------------------------------------------------------ Auth dependency
\* HTTPException(401, detail, headers={"WWW-Authenticate": "ApiKey"}); the
\* table is left as it is
Unauthorized(detail, logged) ==
    [status |-> 401, detail |-> detail,
     hdrs |-> {"WWW-Authenticate: ApiKey"}, log |-> logged, keys |-> api_keys]

\* the except-Exception branch: HTTPException(500); the session is rolled
\* back, so the table is left as it is
ValidationError ==
    [status |-> 500, detail |-> "Error validating API key", hdrs |-> {},
     log |-> <<LogRec("Error validating API key", None)>>, keys |-> api_keys]

\* last_used_at = now, commit, return the key
Authenticated(id) ==
    [status |-> 200, detail |-> "", hdrs |-> {},
     log |-> <<LogRec("API key authenticated", Some(api_keys[id].name))>>,
     keys |-> [api_keys EXCEPT ![id].last_used_at = Some(now)]]

\* get_api_key without the is_valid() check
get_api_key_admits_invalid(header, fault) ==
    IF ~Truthy(header) THEN
        Unauthorized("Missing API key. Please provide X-API-Key header.", <<>>)
    ELSE IF fault = "execute" THEN ValidationError
    ELSE LET id == KeyIdOf(Val(header)) IN
        IF id = 0 THEN
            Unauthorized("Invalid API key",
                         <<LogRec("Invalid API key attempted", None)>>)
        ELSE IF fault = "commit" THEN ValidationError
        ELSE Authenticated(id)

\* get_api_key(api_key header, db): the outcome of validating one request
get_api_key(header, fault) ==
    IF ~Truthy(header) THEN
        Unauthorized("Missing API key. Please provide X-API-Key header.", <<>>)
    ELSE IF fault = "execute" THEN ValidationError
    ELSE LET id == KeyIdOf(Val(header)) IN
        IF id = 0 THEN
            Unauthorized("Invalid API key",
                         <<LogRec("Invalid API key attempted", None)>>)
        ELSE IF ~is_valid(api_keys[id], now) THEN
            Unauthorized("API key is expired or inactive",
                         <<LogRec("Expired or inactive API key attempted",
                                  Some(api_keys[id].name))>>)
        ELSE IF fault = "commit" THEN ValidationError
        ELSE Authenticated(id)

\* ------------------------------------------- middleware/rate_limit.py
\* get_identifier keyed by the secret instead of the name
get_identifier_by_secret(api_key, remote_address) ==
    IF api_key # None THEN "apikey:" \o Val(api_key).key
    ELSE "ip:" \o remote_address

\* get_identifier(request): api_key is request.state.api_key (None when the
\* attribute is not set), remote_address is get_remote_address(request)
get_identifier(api_key, remote_address) ==
    IF api_key # None THEN "apikey:" \o Val(api_key).name
    ELSE "ip:" \o remote_address

\* Limiter(default_limits=["100/minute", "1000/hour"], strategy="fixed-window")
PerMinute == 100
default_limits == {"100/minute", "1000/hour"}

\* main.py: the middleware classes passed to app.add_middleware, and the
\* routes decorated with limiter.limit / covered by SlowAPIMiddleware
Middleware == {"SecurityHeadersMiddleware", "CORSMiddleware"}
LimitedRoutes == {}
LimiterApplies(route) ==
    "SlowAPIMiddleware" \in Middleware \/ route \in LimitedRoutes

\* the identities of the unauthenticated requests of the rate model
Identities == {get_identifier(None, ip) : ip \in {"10.0.0.5", "10.0.0.6"}}

\* ------------------------------------------------- requests, responses
\* the record kept of a handled request: its inputs, whether its handler ran
\* (admitted), and the attribute api_key of request.state once it was handled
Request(op, header, ip, fault, admitted, state_api_key) ==
    [op |-> op, header |-> header, ip |-> ip, fault |-> fault,
     admitted |-> admitted, state_api_key |-> state_api_key, id |-> None]

\* the request of an id-addressed route: id is the path parameter
RequestById(op, header, ip, fault, admitted, id) ==
    [Request(op, header, ip, fault, admitted, None) EXCEPT !.id = Some(id)]

\* message is the field of that name in the body of the catch-all handler
Response(status, detail, hdrs, ks, cs) ==
    [status |-> status, detail |-> detail, hdrs |-> hdrs,
     keys |-> ks, calls |-> cs, message |-> ""]

\* main.py global_exception_handler(request, exc): error is str(exc)
global_exception_handler(error) ==
    [Response(500, "Internal server error", {}, <<>>, <<>>) EXCEPT
        !.message = IF settings.app_env = "development" THEN error
                    ELSE "An error occurred"]

\* the secrets a response carries
SecretsIn(r) ==
    {r.keys[j].key : j \in {i \in 1..Len(r.keys) : "key" \in DOMAIN r.keys[i]}}

\* the count of secret-carrying responses after response r has been sent
Shown(r, keys, old) ==
    [i \in 1..Len(keys) |->
        (IF i <= Len(old) THEN old[i] ELSE 0)
        + (IF keys[i].key \in SecretsIn(r) THEN 1 ELSE 0)]

\* APIKeyResponse declaring the key field too
APIKeyResponse_with_key(i, k) ==
    [id |-> i, name |-> k.name, is_active |-> k.is_active,
     created_at |-> k.created_at, expires_at |-> k.expires_at,
     last_used_at |-> k.last_used_at, key |-> k.key]

\* response_model=APIKeyResponse: the fields the schema declares
APIKeyResponse(i, k) ==
    [id |-> i, name |-> k.name, is_active |-> k.is_active,
     created_at |-> k.created_at, expires_at |-> k.expires_at,
     last_used_at |-> k.last_used_at]

\* response_model=APIKeyWithSecret: APIKeyResponse plus key
APIKeyWithSecret(i, k) ==
    [id |-> i, name |-> k.name, is_active |-> k.is_active,
     created_at |-> k.created_at, expires_at |-> k.expires_at,
     last_used_at |-> k.last_used_at, key |-> k.key]

\* response_model=CallResponse
CallResponse(i, c) ==
    [id |-> i, phone_number |-> c.phone_number, status |-> c.status,
     direction |-> c.direction, created_at |-> c.created_at,
     ended_at |-> c.ended_at]

\* the orders in which ORDER BY created_at DESC can return rows 1..n
\* (rows with equal created_at come in an order the store chooses)
NewestFirst(rows) ==
    {s \in [1..Len(rows) -> 1..Len(rows)] :
        /\ \A a, b \in 1..Len(rows) : a # b => s[a] # s[b]
        /\ \A a, b \in 1..Len(rows) :
              a < b => rows[s[a]].created_at >= rows[s[b]].created_at}

Min(a, b) == IF a < b THEN a ELSE b

\* OFFSET skip LIMIT limit of a sequence
Page(s, skip, limit) == SubSeq(s, skip + 1, Min(Len(s), skip + limit))

Skips == {0, 1}
Limits == {1, 100}
KeyIds == 1..(MaxKeys + 1)
CallIds == 1..(MaxCalls + 1)

\* Rejected, with the timestamp of the named key written all the same
Rejected_stamping(op, header, ip, fault, a, id) ==
    /\ req' = [Request(op, header, ip, fault, FALSE, None) EXCEPT !.id = id]
    /\ resp' = Response(a.status, a.detail, a.hdrs, <<>>, <<>>)
    /\ log' = a.log
    /\ api_keys' = IF Truthy(header) /\ KeyIdOf(Val(header)) # 0
                   THEN [a.keys EXCEPT ![KeyIdOf(Val(header))].last_used_at =
                                          Some(now)]
                   ELSE a.keys
    /\ UNCHANGED <<calls, now, aux, shown>>

\* an Auth failure answers the request; no handler runs and the unit of
\* work is rolled back
Rejected(op, header, ip, fault, a, id) ==
    /\ req' = [Request(op, header, ip, fault, FALSE, None) EXCEPT !.id = id]
    /\ resp' = Response(a.status, a.detail, a.hdrs, <<>>, <<>>)
    /\ log' = a.log
    /\ api_keys' = a.keys
    /\ UNCHANGED <<calls, now, aux, shown>>

\* ------------------------------------------------------ routers/calls.py
create_call(header, ip, fault, phone_number, dbfail) ==
    LET a == get_api_key(header, fault) IN
    IF a.status # 200 THEN Rejected("create_call", header, ip, fault, a, None)
    ELSE
      /\ req' = Request("create_call", header, ip, fault, TRUE, None)
      /\ api_keys' = a.keys
      /\ UNCHANGED <<now, aux, shown>>
      /\ IF dbfail THEN
            /\ resp' = Response(500, "db error", {}, <<>>, <<>>)
            /\ log' = a.log \o <<LogRec("Failed to create call", None)>>
            /\ UNCHANGED calls
         ELSE
            LET call == [phone_number |-> phone_number,
                         status |-> "initiated",
                         direction |-> "outbound",
                         created_at |-> now, ended_at |-> None]
            IN
            /\ Len(calls) < MaxCalls
            /\ calls' = Append(calls, call)
            /\ resp' = Response(200, "", {}, <<>>,
                                <<CallResponse(Len(calls) + 1, call)>>)
            /\ log' = a.log \o <<LogRec("Call created", None)>>

get_call(header, ip, fault, call_id, dbfail) ==
    LET a == get_api_key(header, fault) IN
    IF a.status # 200 THEN Rejected("get_call", header, ip, fault, a, Some(call_id))
    ELSE
      /\ req' = RequestById("get_call", header, ip, fault, TRUE, call_id)
      /\ api_keys' = a.keys
      /\ UNCHANGED <<calls, now, aux, shown>>
      /\ IF dbfail THEN
            /\ resp' = Response(500, "db error", {}, <<>>, <<>>)
            /\ log' = a.log \o <<LogRec("Failed to get call", None)>>
         ELSE IF call_id > Len(calls) THEN
            /\ resp' = Response(404, "Call not found", {}, <<>>, <<>>)
            /\ log' = a.log
         ELSE
            /\ resp' = Response(200, "", {}, <<>>,
                                <<CallResponse(call_id, calls[call_id])>>)
            /\ log' = a.log

CallStatus == {"initiated", "ringing", "in_progress", "completed",
               "failed", "no_answer", "busy", "canceled"}

\* the ids of the rows a status filter keeps, in id order
RECURSIVE Filtered(_, _)
Filtered(n, status) ==
    IF n = 0 THEN <<>>
    ELSE IF status = None \/ calls[n].status = Val(status)
         THEN Append(Filtered(n - 1, status), n)
         ELSE Filtered(n - 1, status)

list_calls(header, ip, fault, skip, limit, status, dbfail) ==
    LET a == get_api_key(header, fault) IN
    IF a.status # 200 THEN Rejected("list_calls", header, ip, fault, a, None)
    ELSE
      /\ req' = Request("list_calls", header, ip, fault, TRUE, None)
      /\ api_keys' = a.keys
      /\ UNCHANGED <<calls, now, aux, shown>>
      /\ IF dbfail THEN
            /\ resp' = Response(500, "db error", {}, <<>>, <<>>)
            /\ log' = a.log \o <<LogRec("Failed to list calls", None)>>
         ELSE
            LET ids == Filtered(Len(calls), status)
                rows == [i \in 1..Len(ids) |-> calls[ids[i]]]
            IN
            /\ \E s \in NewestFirst(rows) :
                  LET page == Page(s, skip, limit) IN
                  resp' = Response(200, "", {}, <<>>,
                      [i \in 1..Len(page) |->
                          CallResponse(ids[page[i]], rows[page[i]])])
            /\ log' = a.log

\* hangup_call declared without the require_api_key dependency
hangup_call_no_auth(header, ip, fault, call_id, dbfail) ==
    /\ req' = RequestById("hangup_call", header, ip, fault, TRUE, call_id)
    /\ UNCHANGED <<api_keys, now, aux, shown>>
    /\ IF dbfail \/ call_id > Len(calls) THEN
          /\ resp' = Response(IF dbfail THEN 500 ELSE 404, "", {}, <<>>, <<>>)
          /\ log' = <<>>
          /\ UNCHANGED calls
       ELSE
          /\ calls' = [calls EXCEPT ![call_id].status = "completed",
                                    ![call_id].ended_at = Some(now)]
          /\ resp' = Response(200, "Call hung up", {}, <<>>, <<>>)
          /\ log' = <<LogRec("Call hung up", None)>>

\* hangup_call without the not-found check: the attribute access on None
\* raises and the except branch answers 500
hangup_call_unchecked(header, ip, fault, call_id, dbfail) ==
    LET a == get_api_key(header, fault) IN
    IF a.status # 200
    THEN Rejected("hangup_call", header, ip, fault, a, Some(call_id))
    ELSE
      /\ req' = RequestById("hangup_call", header, ip, fault, TRUE, call_id)
      /\ api_keys' = a.keys
      /\ UNCHANGED <<now, aux, shown>>
      /\ IF dbfail \/ call_id > Len(calls) THEN
            /\ resp' = Response(500,
                    IF dbfail THEN "db error"
                    ELSE "'NoneType' object has no attribute 'status'",
                    {}, <<>>, <<>>)
            /\ log' = a.log \o <<LogRec("Failed to hang up call", None)>>
            /\ UNCHANGED calls
         ELSE
            /\ calls' = [calls EXCEPT ![call_id].status = "completed",
                                      ![call_id].ended_at = Some(now)]
            /\ resp' = Response(200, "Call hung up", {}, <<>>, <<>>)
            /\ log' = a.log \o <<LogRec("Call hung up", None)>>

hangup_call(header, ip, fault, call_id, dbfail) ==
    LET a == get_api_key(header, fault) IN
    IF a.status # 200 THEN Rejected("hangup_call", header, ip, fault, a, Some(call_id))
    ELSE
      /\ req' = RequestById("hangup_call", header, ip, fault, TRUE, call_id)
      /\ api_keys' = a.keys
      /\ UNCHANGED <<now, aux, shown>>
      /\ IF dbfail THEN
            /\ resp' = Response(500, "db error", {}, <<>>, <<>>)
            /\ log' = a.log \o <<LogRec("Failed to hang up call", None)>>
            /\ UNCHANGED calls
         ELSE IF call_id > Len(calls) THEN
            /\ resp' = Response(404, "Call not found", {}, <<>>, <<>>)
            /\ log' = a.log
            /\ UNCHANGED calls
         ELSE
            /\ calls' = [calls EXCEPT ![call_id].status = "completed",
                                      ![call_id].ended_at = Some(now)]
            /\ resp' = Response(200, "Call hung up", {}, <<>>, <<>>)
            /\ log' = a.log \o <<LogRec("Call hung up", None)>>

\* --------------------------------------------------- routers/api_keys.py
\* the catch-all handler of main.py answers an exception no handler caught
Unhandled(op, ip, id) ==
    /\ req' = [Request(op, None, ip, "none", TRUE, None) EXCEPT !.id = id]
    /\ resp' = global_exception_handler("db error")
    /\ log' = <<LogRec("Unhandled exception", None)>>
    /\ UNCHANGED <<api_keys, calls, now, aux, shown>>

\* key is the value APIKey.generate_key() returns; the unique index on
\* api_keys.key makes the commit raise when the value is already stored
create_api_key(ip, name, expires_at, key, dbfail) ==
    /\ IF dbfail \/ KeyIdOf(key) # 0 THEN Unhandled("create_api_key", ip, None)
       ELSE
         LET api_key == APIKey(key, name, expires_at, now)
             id == Len(api_keys) + 1
         IN
         /\ Len(api_keys) < MaxKeys
         /\ api_keys' = Append(api_keys, api_key)
         /\ req' = Request("create_api_key", None, ip, "none", TRUE, None)
         /\ resp' = Response(201, "", {}, <<APIKeyWithSecret(id, api_key)>>, <<>>)
         /\ log' = <<LogRec("API key created", Some(name))>>
         /\ shown' = Shown(resp', api_keys', shown)
         /\ UNCHANGED <<calls, now, aux>>

list_api_keys(ip, skip, limit, dbfail) ==
    IF dbfail THEN Unhandled("list_api_keys", ip, None)
    ELSE
      /\ \E s \in NewestFirst(api_keys) :
            LET page == Page(s, skip, limit) IN
            resp' = Response(200, "", {},
                [i \in 1..Len(page) |->
                    APIKeyResponse(page[i], api_keys[page[i]])], <<>>)
      /\ req' = Request("list_api_keys", None, ip, "none", TRUE, None)
      /\ log' = <<>>
      /\ shown' = Shown(resp', api_keys, shown)
      /\ UNCHANGED <<api_keys, calls, now, aux>>

\* GET /api/v1/api-keys/{key_id} (the router's get_api_key)
get_api_key_by_id(ip, key_id, dbfail) ==
    IF dbfail THEN Unhandled("get_api_key_by_id", ip, Some(key_id))
    ELSE
      /\ IF key_id > Len(api_keys)
         THEN resp' = Response(404, "API key not found", {}, <<>>, <<>>)
         ELSE resp' = Response(200, "", {},
                          <<APIKeyResponse(key_id, api_keys[key_id])>>, <<>>)
      /\ req' = RequestById("get_api_key_by_id", None, ip, "none", TRUE, key_id)
      /\ log' = <<>>
      /\ shown' = Shown(resp', api_keys, shown)
      /\ UNCHANGED <<api_keys, calls, now, aux>>

\* deactivate_api_key whose update is not restricted to key_id
deactivate_api_key_all(ip, key_id, dbfail) ==
    IF dbfail THEN Unhandled("deactivate_api_key", ip, Some(key_id))
    ELSE IF key_id > Len(api_keys) THEN
      /\ resp' = Response(404, "API key not found", {}, <<>>, <<>>)
      /\ req' = RequestById("deactivate_api_key", None, ip, "none", TRUE, key_id)
      /\ log' = <<>>
      /\ UNCHANGED <<api_keys, calls, now, aux, shown>>
    ELSE
      /\ api_keys' = [i \in 1..Len(api_keys) |->
                         [api_keys[i] EXCEPT !.is_active = FALSE]]
      /\ resp' = Response(200, "", {},
                     <<APIKeyResponse(key_id, api_keys'[key_id])>>, <<>>)
      /\ req' = RequestById("deactivate_api_key", None, ip, "none", TRUE, key_id)
      /\ log' = <<LogRec("API key deactivated", Some(api_keys[key_id].name))>>
      /\ shown' = Shown(resp', api_keys', shown)
      /\ UNCHANGED <<calls, now, aux>>

deactivate_api_key(ip, key_id, dbfail) ==
    IF dbfail THEN Unhandled("deactivate_api_key", ip, Some(key_id))
    ELSE IF key_id > Len(api_keys) THEN
      /\ resp' = Response(404, "API key not found", {}, <<>>, <<>>)
      /\ req' = RequestById("deactivate_api_key", None, ip, "none", TRUE, key_id)
      /\ log' = <<>>
      /\ UNCHANGED <<api_keys, calls, now, aux, shown>>
    ELSE
      /\ api_keys' = [api_keys EXCEPT ![key_id].is_active = FALSE]
      /\ resp' = Response(200, "", {},
                     <<APIKeyResponse(key_id, api_keys'[key_id])>>, <<>>)
      /\ req' = RequestById("deactivate_api_key", None, ip, "none", TRUE, key_id)
      /\ log' = <<LogRec("API key deactivated", Some(api_keys[key_id].name))>>
      /\ shown' = Shown(resp', api_keys', shown)
      /\ UNCHANGED <<calls, now, aux>>

\* nothing of the streaming side has run
InitMore ==
    /\ access = NoAccess
    /\ conn = NoConnection
    /\ sessions = NoSessions
    /\ orm = NoRows
    /\ stream = NoStream

Init ==
    /\ api_keys = <<>>
    /\ calls = <<>>
    /\ now = 0
    /\ req = Request("none", None, "", "none", FALSE, None)
    /\ resp = Response(0, "", {}, <<>>, <<>>)
    /\ log = <<>>
    /\ shown = <<>>
    /\ is_valid_result = None
    /\ identifier = None
    /\ served = [id \in Identities |-> 0]
    /\ hits = [id \in Identities |-> 0]
    /\ settings = DefaultSettings
    /\ provider = NewProvider("none")
    /\ agent = NoInvocation
    /\ InitMore

Tick ==
    /\ now < MaxTime
    /\ now' = now + 1
    /\ UNCHANGED <<api_keys, calls, req, resp, log, shown, aux>>

\* Auth consults the store only for a non-empty header and commits only for
\* a valid key; a handler consults the store only once Auth has admitted
\* the request
FaultsFor(header) ==
    IF ~Truthy(header) THEN {"none"}
    ELSE IF get_api_key(header, "none").status = 200 THEN AuthFaults
    ELSE {"none", "execute"}
FailsFor(header, fault) ==
    IF get_api_key(header, fault).status = 200 THEN BOOLEAN ELSE {FALSE}

CallsRequest ==
    \E header \in Headers, ip \in IPs :
    \E fault \in FaultsFor(header) :
    \E dbfail \in FailsFor(header, fault) :
        \/ \E phone_number \in Phones :
              create_call(header, ip, fault, phone_number, dbfail)
        \/ \E call_id \in CallIds :
              get_call(header, ip, fault, call_id, dbfail)
        \/ \E skip \in Skips, limit \in {100},
              status \in {None, Some("completed")} :
              list_calls(header, ip, fault, skip, limit, status, dbfail)
        \/ \E call_id \in CallIds :
              hangup_call(header, ip, fault, call_id, dbfail)

ApiKeysRequest ==
    \E ip \in IPs, dbfail \in BOOLEAN :
        \/ \E name \in Names, expires_at \in Expiries, key \in Secrets :
              create_api_key(ip, name, expires_at, key, dbfail)
        \/ \E skip \in Skips, limit \in Limits :
              list_api_keys(ip, skip, limit, dbfail)
        \/ \E key_id \in KeyIds : get_api_key_by_id(ip, key_id, dbfail)
        \/ \E key_id \in KeyIds : deactivate_api_key(ip, key_id, dbfail)

Next == Tick \/ CallsRequest \/ ApiKeysRequest

Spec == Init /\ [][Next]_vars
\* ------------------------------------------------ APIKey.is_valid alone
\* a stored key with any activity flag and expiry, at any clock value
InitValid ==
    /\ \E key \in Secrets, name \in Names, active \in BOOLEAN,
          expires_at \in {None} \cup {Some(t) : t \in 0..MaxClock} :
          api_keys = <<[APIKey(key, name, expires_at, 0)
                           EXCEPT !.is_active = active]>>
    /\ now \in 0..MaxClock
    /\ calls = <<>>
    /\ req = Request("none", None, "", "none", FALSE, None)
    /\ resp = Response(0, "", {}, <<>>, <<>>)
    /\ log = <<>>
    /\ shown = <<1>>
    /\ is_valid_result = None
    /\ identifier = None
    /\ served = [id \in Identities |-> 0]
    /\ hits = [id \in Identities |-> 0]
    /\ settings = DefaultSettings
    /\ provider = NewProvider("none")
    /\ agent = NoInvocation
    /\ InitMore

CheckValid ==
    /\ is_valid_result = None
    /\ is_valid_result' = Some(is_valid(api_keys[1], now))
    /\ UNCHANGED <<api_keys, calls, now, req, resp, log, shown,
                   identifier, served, hits, ext>>

ClockValid ==
    /\ now < MaxClock
    /\ now' = now + 1
    /\ is_valid_result' = None
    /\ UNCHANGED <<api_keys, calls, req, resp, log, shown,
                   identifier, served, hits, ext>>

NextValid == CheckValid \/ ClockValid

SpecValid == InitValid /\ [][NextValid]_vars

\* --------------------------------------------------- get_identifier alone
\* a request whose state carries a resolved key or none
InitIdent ==
    /\ \E op \in {"get_call", "list_calls"}, header \in Headers, ip \in Addrs,
          api_key \in {None} \cup
              {Some(APIKey(key, name, None, 0)) :
                   key \in Secrets, name \in StateNames} :
          req = Request(op, header, ip, "none", FALSE, api_key)
    /\ api_keys = <<>>
    /\ calls = <<>>
    /\ now = 0
    /\ resp = Response(0, "", {}, <<>>, <<>>)
    /\ log = <<>>
    /\ shown = <<>>
    /\ is_valid_result = None
    /\ identifier = None
    /\ served = [id \in Identities |-> 0]
    /\ hits = [id \in Identities |-> 0]
    /\ settings = DefaultSettings
    /\ provider = NewProvider("none")
    /\ agent = NoInvocation
    /\ InitMore

Identify ==
    /\ identifier = None
    /\ identifier' = Some(get_identifier(req.state_api_key, req.ip))
    /\ UNCHANGED <<api_keys, calls, now, req, resp, log, shown,
                   is_valid_result, served, hits, ext>>

NextIdent == Identify

SpecIdent == InitIdent /\ [][NextIdent]_vars

\* ------------------------------------------------------- rate limiting
\* GET /health from address ip; in this model the clock counts minutes,
\* so that a tick starts a new fixed one-minute window.  The first
\* conjunct stops the count of served requests one above the limit.
health_check(ip) ==
    LET id == get_identifier(None, ip) IN
    /\ served[id] <= PerMinute
    /\ req' = Request("health_check", None, ip, "none",
                      ~(LimiterApplies("/health") /\ hits[id] >= PerMinute),
                      None)
    /\ IF LimiterApplies("/health") /\ hits[id] >= PerMinute THEN
          /\ resp' = Response(429, "Rate limit exceeded", {}, <<>>, <<>>)
          /\ UNCHANGED <<served, hits>>
       ELSE
          /\ resp' = Response(200, "healthy", {}, <<>>, <<>>)
          /\ served' = [served EXCEPT ![id] = @ + 1]
          /\ hits' = IF LimiterApplies("/health")
                     THEN [hits EXCEPT ![id] = @ + 1] ELSE hits
    /\ log' = <<>>
    /\ UNCHANGED <<api_keys, calls, now, shown, is_valid_result, identifier,
                   ext>>

RateTick ==
    /\ now < MaxTime
    /\ now' = now + 1
    /\ served' = [id \in Identities |-> 0]
    /\ hits' = [id \in Identities |-> 0]
    /\ UNCHANGED <<api_keys, calls, req, resp, log, shown,
                   is_valid_result, identifier, ext>>

NextRate == RateTick \/ \E ip \in {"10.0.0.5", "10.0.0.6"} : health_check(ip)

SpecRate == Init /\ [][NextRate]_vars
\* ------------------------------------------------ the HTTP stack (main.py)
\* In Spec, resp is the response as Auth or the endpoint produces it; the
\* definitions below model the middleware stack the application wraps
\* around every endpoint, applied to each outcome an endpoint can have.

\* str(exc) of the failures a request can meet
Errors == {"connection refused", "duplicate key"}

\* the header lines the middleware writes
HSTS == "Strict-Transport-Security: max-age=31536000; includeSubDomains; preload"
NoSniff == "X-Content-Type-Options: nosniff"
FrameDeny == "X-Frame-Options: DENY"
CacheControl == "Cache-Control: no-store, no-cache, must-revalidate, private"
OtherSecurityHeaders ==
    {"X-XSS-Protection: 1; mode=block", "Content-Security-Policy",
     "Referrer-Policy: strict-origin-when-cross-origin", "Permissions-Policy",
     "X-Permitted-Cross-Domain-Policies: none"}

\* a path is the sequence of its segments: /api/v1/calls/ is
\* <<"api", "v1", "calls">> and / is <<>>
\* request.url.path.startswith("/api/")
StartsWithApi(path) == Len(path) >= 2 /\ path[1] = "api"

\* the routes of the routers included by main.py (op "not_found" stands
\* for a path no router declares)
Route(op, method, path) == [op |-> op, method |-> method, path |-> path]
Routes ==
    {Route("root", "GET", <<>>),
     Route("health_check", "GET", <<"health">>),
     Route("create_call", "POST", <<"api", "v1", "calls">>),
     Route("get_call", "GET", <<"api", "v1", "calls", "{call_id}">>),
     Route("create_api_key", "POST", <<"api", "v1", "api-keys">>),
     Route("get_api_key_by_id", "GET", <<"api", "v1", "api-keys", "{key_id}">>),
     Route("twilio_status_webhook", "POST", <<"webhooks", "twilio", "status">>),
     Route("not_found", "GET", <<"api">>)}

\* what the router, Auth and the endpoint make of a request: a returned
\* response, an HTTPException, or an exception nothing below catches
Returned(status) == [kind |-> "response", status |-> status, detail |-> "",
                     hdrs |-> {}]
HTTPException(status, detail, hdrs) ==
    [kind |-> "http_exception", status |-> status, detail |-> detail,
     hdrs |-> hdrs]
Raised(error) == [kind |-> "exception", status |-> 0, detail |-> error,
                  hdrs |-> {}]

\* the outcomes of get_api_key that end the request
AuthOutcomes(error) ==
    IF error = None
    THEN {HTTPException(401, d, {"WWW-Authenticate: ApiKey"}) :
            d \in {"Missing API key. Please provide X-API-Key header.",
                   "Invalid API key", "API key is expired or inactive"}}
    ELSE {HTTPException(500, "Error validating API key", {})}

\* the routes whose endpoint or dependencies can fail
Failing == {"create_call", "get_call", "create_api_key", "get_api_key_by_id",
            "twilio_status_webhook"}

\* the outcomes of the request to route op; error is the failure the
\* request meets (None: none), as str(exc)
Outcomes(op, error) ==
    IF op \in {"root", "health_check"} THEN {Returned(200)}
    ELSE IF op = "not_found" THEN {HTTPException(404, "Not Found", {})}
    ELSE IF op = "twilio_status_webhook" THEN
        IF error = None THEN {Returned(200)}
        ELSE {[Returned(200) EXCEPT !.detail = Val(error)]}
    ELSE IF op \in {"create_call", "get_call"} THEN
        AuthOutcomes(error) \cup
        (IF error # None THEN {HTTPException(500, Val(error), {})}
         ELSE {Returned(200)} \cup
              (IF op = "get_call"
               THEN {HTTPException(404, "Call not found", {})} ELSE {}))
    ELSE IF error # None THEN {Raised(Val(error))}
    ELSE IF op = "create_api_key" THEN {Returned(201)}
    ELSE {Returned(200), HTTPException(404, "API key not found", {})}

\* the router answers a method the route does not declare
Routed(route, method, outcome) ==
    IF method = route.method \/ route.op = "not_found" THEN outcome
    ELSE HTTPException(405, "Method Not Allowed", {})

\* SecurityHeadersMiddleware.dispatch: the headers set on the response
\* call_next returned
SecurityHeadersMiddleware(path, response) ==
    [response EXCEPT !.hdrs =
        @ \cup (IF settings.app_env # "development" THEN {HSTS} ELSE {})
          \cup {NoSniff, FrameDeny} \cup OtherSecurityHeaders
          \cup (IF StartsWithApi(path)
                THEN {CacheControl, "Pragma: no-cache"} ELSE {})]

\* Settings.allowed_origins, and the Origin headers of the requests
AllowedOrigins == {"http://localhost:3000", "http://localhost:8080"}
Origins == {None, Some("http://localhost:3000"), Some("http://evil.example")}

\* CORSMiddleware answers a preflight request itself
IsPreflight(method, origin, acrm) ==
    settings.cors_enabled /\ method = "OPTIONS" /\ origin # None /\ acrm
preflight_response(origin) ==
    IF Val(origin) \in AllowedOrigins
    THEN Response(200, "OK",
             {"Access-Control-Allow-Origin: " \o Val(origin),
              "Access-Control-Allow-Credentials: true",
              "Access-Control-Allow-Methods", "Vary: Origin"}, <<>>, <<>>)
    ELSE Response(400, "Disallowed CORS origin",
             {"Access-Control-Allow-Credentials: true",
              "Access-Control-Allow-Methods", "Vary: Origin"}, <<>>, <<>>)

\* CORSMiddleware on the response to any other request with an Origin
simple_response(origin, response) ==
    IF ~settings.cors_enabled \/ origin = None THEN response
    ELSE [response EXCEPT !.hdrs =
            @ \cup {"Access-Control-Allow-Credentials: true", "Vary: Origin"}
              \cup (IF Val(origin) \in AllowedOrigins
                    THEN {"Access-Control-Allow-Origin: " \o Val(origin)}
                    ELSE {})]

\* the application: the stack, outermost first, is the server-error
\* middleware (which runs global_exception_handler), CORSMiddleware (added
\* last), SecurityHeadersMiddleware (added first), the exception
\* middleware (which turns an HTTPException into a response), the router
App(route, method, origin, acrm, outcome) ==
    IF IsPreflight(method, origin, acrm) THEN preflight_response(origin)
    ELSE LET o == Routed(route, method, outcome) IN
         IF o.kind = "exception" THEN global_exception_handler(o.detail)
         ELSE simple_response(origin,
                  SecurityHeadersMiddleware(route.path,
                      Response(o.status, o.detail, o.hdrs, <<>>, <<>>)))

\* one HTTP request answered by the application
http_request(route, method, origin, acrm, error, outcome) ==
    /\ req' = [op |-> route.op, path |-> route.path, method |-> method,
               origin |-> origin, acrm |-> acrm,
               error |-> IF IsPreflight(method, origin, acrm)
                            \/ method # route.method
                            \/ route.op \notin Failing
                         THEN None ELSE error,
               kind |-> Routed(route, method, outcome).kind]
    /\ resp' = App(route, method, origin, acrm, outcome)
    /\ log' = IF ~IsPreflight(method, origin, acrm)
                 /\ Routed(route, method, outcome).kind = "exception"
              THEN <<LogRec("Unhandled exception", None)>> ELSE <<>>
    /\ UNCHANGED <<api_keys, calls, now, shown, aux>>

\* the process starts with any environment, CORS enabled or not
InitHttp ==
    /\ \E app_env \in Environment, cors_enabled \in BOOLEAN :
          settings = Settings(app_env, cors_enabled, TRUE)
    /\ provider = NewProvider("none")
    /\ agent = NoInvocation
    /\ InitMore
    /\ api_keys = <<>>
    /\ calls = <<>>
    /\ now = 0
    /\ req = Request("none", None, "", "none", FALSE, None)
    /\ resp = Response(0, "", {}, <<>>, <<>>)
    /\ log = <<>>
    /\ shown = <<>>
    /\ is_valid_result = None
    /\ identifier = None
    /\ served = [id \in Identities |-> 0]
    /\ hits = [id \in Identities |-> 0]

NextHttp ==
    \E route \in Routes, origin \in Origins, acrm \in BOOLEAN,
       error \in {None} \cup {Some(e) : e \in Errors} :
    \E method \in {route.method, "OPTIONS"},
       outcome \in Outcomes(route.op, error) :
        http_request(route, method, origin, acrm, error, outcome)

SpecHttp == InitHttp /\ [][NextHttp]_vars

\* ---------------------------------------------------- routers/health.py
\* the outcome of a probe: the latency measured, or the exception raised
Latencies == {1, 2}
Probes == [ok : {TRUE}, latency_ms : Latencies, error : {""}]
              \cup [ok : {FALSE}, latency_ms : {0}, error : Errors]

ComponentStatus(name, status, latency_ms, message) ==
    [name |-> name, status |-> status, latency_ms |-> latency_ms,
     message |-> message]

DetailedHealthResponse(status, components) ==
    [status |-> status, timestamp |-> now, service |-> "neura-call-center",
     version |-> "0.1.0", environment |-> settings.app_env,
     components |-> components]

\* the handler with a cache failure always lowering the status to degraded
detailed_health_unguarded(db, cache) ==
    LET database ==
            IF db.ok
            THEN ComponentStatus("database", "healthy", Some(db.latency_ms),
                                 "PostgreSQL connection OK")
            ELSE ComponentStatus("database", "unhealthy", None, db.error)
        status1 == IF db.ok THEN "healthy" ELSE "unhealthy"
        cache_c ==
            IF ~settings.cache_enabled
            THEN ComponentStatus("cache", "healthy", None, "Cache disabled")
            ELSE IF cache.ok
            THEN ComponentStatus("cache", "healthy", Some(cache.latency_ms),
                                 "Redis/Valkey connection OK")
            ELSE ComponentStatus("cache", "degraded", None, cache.error)
        status2 == IF settings.cache_enabled /\ ~cache.ok
                   THEN "degraded" ELSE status1
    IN DetailedHealthResponse(status2, <<database, cache_c>>)

\* detailed_health_check: db is the outcome of SELECT 1, cache that of
\* the ping (made only when the cache is enabled)
detailed_health(db, cache) ==
    LET database ==
            IF db.ok
            THEN ComponentStatus("database", "healthy", Some(db.latency_ms),
                                 "PostgreSQL connection OK")
            ELSE ComponentStatus("database", "unhealthy", None, db.error)
        status1 == IF db.ok THEN "healthy" ELSE "unhealthy"
        cache_c ==
            IF ~settings.cache_enabled
            THEN ComponentStatus("cache", "healthy", None, "Cache disabled")
            ELSE IF cache.ok
            THEN ComponentStatus("cache", "healthy", Some(cache.latency_ms),
                                 "Redis/Valkey connection OK")
            ELSE ComponentStatus("cache", "degraded", None, cache.error)
        status2 == IF settings.cache_enabled /\ ~cache.ok
                      /\ status1 = "healthy"
                   THEN "degraded" ELSE status1
    IN DetailedHealthResponse(status2, <<database, cache_c>>)

\* GET /health/detailed
detailed_health_check(db, cache) ==
    /\ req' = [op |-> "detailed_health_check", db |-> db,
               cache |-> IF settings.cache_enabled THEN Some(cache) ELSE None]
    /\ resp' = [status |-> 200, body |-> detailed_health(db, cache)]
    /\ UNCHANGED <<api_keys, calls, now, log, shown, aux>>

\* the clock the timestamp of the response is read from
HealthTick ==
    /\ now < MaxClock
    /\ now' = now + 1
    /\ UNCHANGED <<api_keys, calls, req, resp, log, shown, aux>>

InitHealth ==
    /\ \E app_env \in Environment, cache_enabled \in BOOLEAN :
          settings = Settings(app_env, TRUE, cache_enabled)
    /\ provider = NewProvider("none")
    /\ agent = NoInvocation
    /\ InitMore
    /\ api_keys = <<>>
    /\ calls = <<>>
    /\ now = 0
    /\ req = Request("none", None, "", "none", FALSE, None)
    /\ resp = Response(0, "", {}, <<>>, <<>>)
    /\ log = <<>>
    /\ shown = <<>>
    /\ is_valid_result = None
    /\ identifier = None
    /\ served = [id \in Identities |-> 0]
    /\ hits = [id \in Identities |-> 0]

NextHealth ==
    \/ HealthTick
    \/ \E db \in Probes, cache \in Probes : detailed_health_check(db, cache)

SpecHealth == InitHealth /\ [][NextHealth]_vars

\* ------------------------------------------------------------ providers/*
\* what a call of a provider method gives its caller
Returns(value) == [kind |-> "return", value |-> value]
ProviderError(message) == [kind |-> "raise", value |-> message]
\* the call is suspended in an await
Suspended == [kind |-> "await", value |-> None]

\* the object after a client (model) has been constructed and stored
WithNewClient(p) ==
    [p EXCEPT !.client = Some(p.created + 1), !.created = @ + 1,
              !._initialized = TRUE]

\* initialize() without the early return
initialize_always(p, fail) ==
    IF fail THEN [provider |-> p, raised |-> TRUE]
    ELSE [provider |-> WithNewClient(p), raised |-> FALSE]

\* initialize() of DeepgramSTTProvider, ElevenLabsTTSProvider,
\* OpenAITTSProvider and TwilioTelephonyProvider on object p: the object
\* it leaves and whether it raised ProviderError; fail says that the
\* constructor of the client raises
initialize(p, fail) ==
    IF p._initialized THEN [provider |-> p, raised |-> FALSE]
    ELSE IF fail THEN [provider |-> p, raised |-> TRUE]
    ELSE [provider |-> WithNewClient(p), raised |-> FALSE]

\* a call of initialize() on the provider
provider_initialize(fail) ==
    /\ provider.kind \in Kinds \ {"whisper"}
    /\ LET r == initialize(provider, fail) IN
       /\ r.provider.created <= MaxClients
       /\ provider' = r.provider
       /\ resp' = IF r.raised THEN ProviderError("Failed to initialize")
                  ELSE Returns(None)
    /\ req' = [op |-> "initialize", was |-> provider]
    /\ UNCHANGED <<api_keys, calls, now, log, shown, is_valid_result,
                   identifier, served, hits, settings, agent, more>>

\* WhisperSTTProvider.initialize up to its await: it returns at once on an
\* initialised object and otherwise waits for whisper.load_model
whisper_initialize ==
    /\ provider.kind = "whisper"
    /\ IF provider._initialized
       THEN /\ resp' = Returns(None)
            /\ UNCHANGED provider
       ELSE /\ provider.loading < MaxClients
            /\ provider' = [provider EXCEPT !.loading = @ + 1]
            /\ resp' = Suspended
    /\ req' = [op |-> "initialize", was |-> provider]
    /\ UNCHANGED <<api_keys, calls, now, log, shown, is_valid_result,
                   identifier, served, hits, settings, agent, more>>

\* WhisperSTTProvider.initialize after its await: load_model has returned
\* the model or raised
whisper_load_model(fail) ==
    /\ provider.kind = "whisper"
    /\ provider.loading > 0
    /\ IF fail
       THEN /\ provider' = [provider EXCEPT !.loading = @ - 1]
            /\ resp' = ProviderError("Failed to initialize Whisper")
       ELSE /\ provider.created < MaxClients
            /\ provider' = [WithNewClient(provider) EXCEPT !.loading = @ - 1]
            /\ resp' = Returns(None)
    /\ req' = [op |-> "load_model", was |-> provider]
    /\ UNCHANGED <<api_keys, calls, now, log, shown, is_valid_result,
                   identifier, served, hits, settings, agent, more>>

\* cleanup() leaving the initialised flag as it is
provider_cleanup_keeping_flag(close_fail) ==
    /\ provider.kind \in Kinds
    /\ ~close_fail
    /\ provider' = [provider EXCEPT !.client = None]
    /\ resp' = Returns(None)
    /\ req' = [op |-> "cleanup", was |-> provider]
    /\ UNCHANGED <<api_keys, calls, now, log, shown, is_valid_result,
                   identifier, served, hits, settings, agent, more>>

\* cleanup() of every provider; close_fail says that
\* `await self.client.close()`, which only OpenAITTSProvider calls and
\* only on a client it holds, raises
provider_cleanup(close_fail) ==
    /\ provider.kind \in Kinds
    /\ close_fail => provider.kind = "openai" /\ provider.client # None
    /\ provider' = IF close_fail THEN provider
                   ELSE [provider EXCEPT !.client = None,
                                         !._initialized = FALSE]
    /\ resp' = IF close_fail THEN [kind |-> "raise", value |-> "close failed"]
               ELSE Returns(None)
    /\ req' = [op |-> "cleanup", was |-> provider]
    /\ UNCHANGED <<api_keys, calls, now, log, shown, is_valid_result,
                   identifier, served, hits, settings, agent, more>>

\* health_check() of each provider; vendor_ok says that the request the
\* ElevenLabs and Twilio checks make to the vendor succeeds
provider_health(p, vendor_ok) ==
    IF p.kind = "deepgram" THEN
        (IF ~p._initialized THEN FALSE ELSE p.client # None)
    ELSE IF p.kind = "whisper" THEN p._initialized /\ p.client # None
    ELSE IF ~p._initialized \/ p.client = None THEN FALSE
    ELSE IF p.kind = "openai" THEN TRUE
    ELSE vendor_ok

\* transcribe() of DeepgramSTTProvider and synthesize() of
\* ElevenLabsTTSProvider and OpenAITTSProvider: init_fail and fail say
\* that the client constructor and the request to the vendor raise; the
\* value returned tells the client the request went through
provider_operation(init_fail, fail) ==
    /\ provider.kind \in {"deepgram", "elevenlabs", "openai"}
    /\ LET r == IF ~provider._initialized \/ provider.client = None
                THEN initialize(provider, init_fail)
                ELSE [provider |-> provider, raised |-> FALSE]
       IN
       /\ r.provider.created <= MaxClients
       /\ provider' = r.provider
       /\ resp' = IF r.raised THEN ProviderError("Failed to initialize")
                  ELSE IF fail THEN ProviderError("Operation failed")
                  ELSE Returns([client |-> r.provider.client])
    /\ req' = [op |-> IF provider.kind = "deepgram" THEN "transcribe"
                      ELSE "synthesize",
               was |-> provider]
    /\ UNCHANGED <<api_keys, calls, now, log, shown, is_valid_result,
                   identifier, served, hits, settings, agent, more>>

provider_health_check(vendor_ok) ==
    /\ provider.kind \in Kinds
    /\ resp' = Returns(provider_health(provider, vendor_ok))
    /\ req' = [op |-> "health_check", was |-> provider]
    /\ UNCHANGED <<api_keys, calls, now, log, shown, is_valid_result,
                   identifier, served, hits, settings, provider, agent,
                   more>>

\* ------------------------------------------ providers/telephony/twilio.py
\* the status strings of the vendor's call objects: the eight the vendor
\* documents and some it does not
TwilioStatuses ==
    {"queued", "ringing", "in-progress", "completed", "failed", "busy",
     "no-answer", "canceled",
     "answered", "initiated", "in_progress", "no_answer", "QUEUED", ""}

status_map ==
    ("queued" :> "initiated") @@ ("ringing" :> "ringing")
    @@ ("in-progress" :> "in_progress") @@ ("completed" :> "completed")
    @@ ("failed" :> "failed") @@ ("busy" :> "busy")
    @@ ("no-answer" :> "no_answer") @@ ("canceled" :> "canceled")

\* the mapping with initiated as the default
_map_twilio_status_default_initiated(twilio_status) ==
    IF twilio_status \in DOMAIN status_map THEN status_map[twilio_status]
    ELSE "initiated"

\* status_map.get(twilio_status, CallStatus.FAILED)
_map_twilio_status(twilio_status) ==
    IF twilio_status \in DOMAIN status_map THEN status_map[twilio_status]
    ELSE "failed"

_twilio_call_to_call(twilio_call) ==
    [id |-> twilio_call.sid,
     status |-> _map_twilio_status(twilio_call.status),
     direction |-> twilio_call.direction]

\* TwilioTelephonyProvider.get_call(call_id): init_fail and fetch_fail say
\* that the client constructor and the fetch raise; twilio_status is the
\* status of the call object the vendor returns
twilio_get_call(init_fail, fetch_fail, twilio_status) ==
    /\ provider.kind = "twilio"
    /\ LET r == IF ~provider._initialized \/ provider.client = None
                THEN initialize(provider, init_fail)
                ELSE [provider |-> provider, raised |-> FALSE]
       IN
       /\ r.provider.created <= MaxClients
       /\ provider' = r.provider
       /\ resp' = IF r.raised THEN ProviderError("Failed to initialize")
                  ELSE IF fetch_fail THEN ProviderError("Failed to get call")
                  ELSE Returns(_twilio_call_to_call(
                           [sid |-> "CA1", status |-> twilio_status,
                            direction |-> "outbound-api"]))
    /\ req' = [op |-> "twilio_get_call", was |-> provider,
               twilio_status |-> twilio_status]
    /\ UNCHANGED <<api_keys, calls, now, log, shown, is_valid_result,
                   identifier, served, hits, settings, agent, more>>

\* a provider object of any class, as __init__ leaves it
InitProvider ==
    /\ \E kind \in Kinds : provider = NewProvider(kind)
    /\ agent = NoInvocation
    /\ InitMore
    /\ settings = DefaultSettings
    /\ api_keys = <<>>
    /\ calls = <<>>
    /\ now = 0
    /\ req = Request("none", None, "", "none", FALSE, None)
    /\ resp = Response(0, "", {}, <<>>, <<>>)
    /\ log = <<>>
    /\ shown = <<>>
    /\ is_valid_result = None
    /\ identifier = None
    /\ served = [id \in Identities |-> 0]
    /\ hits = [id \in Identities |-> 0]

NextProvider ==
    \/ \E fail \in BOOLEAN : provider_initialize(fail)
    \/ whisper_initialize
    \/ \E fail \in BOOLEAN : whisper_load_model(fail)
    \/ \E close_fail \in BOOLEAN : provider_cleanup(close_fail)
    \/ \E init_fail \in BOOLEAN, fail \in BOOLEAN :
          provider_operation(init_fail, fail)
    \/ \E vendor_ok \in BOOLEAN : provider_health_check(vendor_ok)
    \/ \E init_fail \in BOOLEAN, fetch_fail \in BOOLEAN,
          twilio_status \in TwilioStatuses :
          twilio_get_call(init_fail, fetch_fail, twilio_status)

SpecProvider == InitProvider /\ [][NextProvider]_vars

\* --------------------------------------------------- agents/call_agent.py
\* messages: a HumanMessage, the model's reply (which may request tools),
\* and the ToolMessage the tools node appends for each requested tool
HumanMessage(content) == [type |-> "human", content |-> content]
ToolMessage(name) == [type |-> "tool", name |-> name]

\* the replies llm_with_tools.ainvoke can give: an AIMessage with no tool
\* call, with one or with two, and a message without the attribute
Replies ==
    {[type |-> "ai", content |-> "done", tool_calls |-> <<>>],
     [type |-> "ai", content |-> "", tool_calls |-> <<"get_customer_info">>],
     [type |-> "ai", content |-> "",
      tool_calls |-> <<"create_claim", "get_product_info">>],
     [type |-> "chunk", content |-> "done"]}

\* the arguments of invoke
Messages == {"Hello, I need help"}
CustomerIds == {None, Some("CUST-123")}
AgentCallIds == {None, Some("CALL-001")}

\* graph.ainvoke(initial_state, config=config): the number of nodes the
\* graph runtime runs for one invocation when config sets no
\* recursion_limit
RecursionLimit == 25

\* _should_continue testing only that the attribute exists
_should_continue_attr_only(state) ==
    LET last_message == state.messages[Len(state.messages)] IN
    IF "tool_calls" \in DOMAIN last_message THEN "continue" ELSE "end"

\* _should_continue(state)
_should_continue(state) ==
    LET last_message == state.messages[Len(state.messages)] IN
    IF "tool_calls" \in DOMAIN last_message
          /\ last_message.tool_calls # <<>>
    THEN "continue" ELSE "end"

\* the mapping of add_conditional_edges
ConditionalEdge(result) == IF result = "continue" THEN "tools" ELSE "END"

\* _call_model whose update replaces the message list
_call_model_replacing(state, response) ==
    [state EXCEPT !.messages = <<response>>]

\* _call_model(state) with the reply response: the update
\* {"messages": [response]} merged by the add_messages reducer
_call_model(state, response) ==
    [state EXCEPT !.messages = Append(@, response)]

\* ToolNode(self.tools): one ToolMessage for each tool call of the last
\* message, appended by the reducer
ToolNode(state) ==
    LET calls_ == state.messages[Len(state.messages)].tool_calls IN
    [state EXCEPT !.messages =
        @ \o [i \in 1..Len(calls_) |-> ToolMessage(calls_[i])]]

\* invoke(message, customer_id, call_id): the initial state enters the
\* graph at START, whose edge leads to agent
invoke(message, customer_id, call_id) ==
    /\ agent.status = "idle"
    /\ agent' = Invocation("running", "agent",
                    CallCenterState(<<HumanMessage(message)>>,
                                    customer_id, call_id),
                    0, <<message, customer_id, call_id>>, "")
    /\ UNCHANGED <<api_keys, calls, now, req, resp, log, shown,
                   is_valid_result, identifier, served, hits, settings,
                   provider, more>>

\* the agent node runs: the model replies, or the request to it raises
agent_node(response, llm_fails) ==
    /\ agent.status = "running"
    /\ agent.node = "agent"
    /\ agent.step < RecursionLimit
    /\ IF llm_fails
       THEN agent' = [agent EXCEPT !.status = "raised",
                                   !.error = "APIConnectionError"]
       ELSE LET state == _call_model(agent.state, response)
                next == ConditionalEdge(_should_continue(state))
            IN agent' = [agent EXCEPT
                            !.state = state, !.step = @ + 1, !.node = next,
                            !.status = IF next = "END" THEN "returned"
                                       ELSE "running"]
    /\ UNCHANGED <<api_keys, calls, now, req, resp, log, shown,
                   is_valid_result, identifier, served, hits, settings,
                   provider, more>>

\* the tools node runs; its edge leads back to agent
tools_node ==
    /\ agent.status = "running"
    /\ agent.node = "tools"
    /\ agent.step < RecursionLimit
    /\ agent' = [agent EXCEPT !.state = ToolNode(agent.state),
                              !.step = @ + 1, !.node = "agent"]
    /\ UNCHANGED <<api_keys, calls, now, req, resp, log, shown,
                   is_valid_result, identifier, served, hits, settings,
                   provider, more>>

\* the graph runtime ends an invocation that has run RecursionLimit nodes
\* and has not reached END
out_of_steps ==
    /\ agent.status = "running"
    /\ agent.step >= RecursionLimit
    /\ agent' = [agent EXCEPT !.status = "raised",
                              !.error = "GraphRecursionError"]
    /\ UNCHANGED <<api_keys, calls, now, req, resp, log, shown,
                   is_valid_result, identifier, served, hits, settings,
                   provider, more>>

NextAgent ==
    \/ \E message \in Messages, customer_id \in CustomerIds,
          call_id \in AgentCallIds : invoke(message, customer_id, call_id)
    \/ \E response \in Replies, llm_fails \in BOOLEAN :
          agent_node(response, llm_fails)
    \/ tools_node
    \/ out_of_steps

SpecAgent == Init /\ [][NextAgent]_vars

\* ------------------------------------------------- agents/tools/*.py
\* Text is a sequence of words; `in` on two strings is containment of a
\* run of whole words.  Article content is abridged to its first sentence.
lower(text) ==
    [i \in 1..Len(text) |->
        CASE text[i] \in {"Refund", "REFUND"} -> "refund"
          [] text[i] = "Policy" -> "policy"
          [] text[i] = "Shipping" -> "shipping"
          [] text[i] = "Information" -> "information"
          [] text[i] = "Technical" -> "technical"
          [] text[i] = "Support" -> "support"
          [] text[i] = "Warranty" -> "warranty"
          [] text[i] = "Customers" -> "customers"
          [] text[i] = "Standard" -> "standard"
          [] text[i] = "For" -> "for"
          [] text[i] = "All" -> "all"
          [] text[i] = "Days" -> "days"
          [] OTHER -> text[i]]

\* needle in haystack
Contains(needle, haystack) ==
    \E i \in 0..(Len(haystack) - Len(needle)) :
        \A j \in 1..Len(needle) : haystack[i + j] = needle[j]

KNOWLEDGE_BASE ==
    <<[id |-> "refund_policy", title |-> <<"Refund", "Policy">>,
       content |-> <<"Customers", "can", "request", "a", "refund", "within",
                     "30", "days", "of", "purchase">>,
       category |-> "policy"],
      [id |-> "shipping_info", title |-> <<"Shipping", "Information">>,
       content |-> <<"Standard", "shipping", "takes", "3-5", "business",
                     "days">>,
       category |-> "shipping"],
      [id |-> "technical_support", title |-> <<"Technical", "Support">>,
       content |-> <<"For", "technical", "issues", "try", "restarting",
                     "the", "device", "first">>,
       category |-> "support"],
      [id |-> "warranty_info", title |-> <<"Warranty", "Information">>,
       content |-> <<"All", "products", "come", "with", "a", "1-year",
                     "manufacturer", "warranty">>,
       category |-> "warranty"]>>

\* prices in cents
PRODUCT_CATALOG ==
    <<[id |-> "PROD-001", name |-> "Premium Headphones", price |-> 19999,
       category |-> "Electronics", in_stock |-> TRUE],
      [id |-> "PROD-002", name |-> "Smart Watch", price |-> 29999,
       category |-> "Electronics", in_stock |-> TRUE],
      [id |-> "PROD-003", name |-> "Laptop Stand", price |-> 4999,
       category |-> "Accessories", in_stock |-> FALSE]>>

\* an exception leaves the body of a tool
Throws(error) == [kind |-> "raise", value |-> error]

\* try: <body> / except Exception as e: logger.error(...); return {"error":
\* f"<prefix>: {e}", **extra}; variant without the handler first
Caught_reraising(prefix, extra, outcome) == outcome

Caught(prefix, extra, outcome) ==
    IF outcome.kind = "raise"
    THEN Returns([error |-> <<prefix, outcome.value>>] @@ extra)
    ELSE outcome

\* no field is passed along with the error
NoExtra == [x \in {} |-> x]

\* the order-preserving selection of the rows of s that satisfy Keep
RECURSIVE SelectRows(_, _)
SelectRows(s, keep) ==
    IF s = <<>> THEN <<>>
    ELSE (IF keep[1] THEN <<Head(s)>> ELSE <<>>)
         \o SelectRows(Tail(s), Tail(keep))

\* Call has no column customer_id: building the first query raises
get_customer_info(customer_id) ==
    Caught("Failed to get customer info", [customer_id |-> customer_id],
           Throws("type object 'Call' has no attribute 'customer_id'"))

\* call_id None stands for a string that is no UUID; fault names the query
\* at which the store fails; conversation is the row of the second query
ToolFaults == {"none", "first query", "second query"}
get_call_history(call_id, fault, conversation) ==
    Caught("Failed to get call history", NoExtra,
      IF fault = "first query" THEN Throws("connection refused")
      ELSE IF call_id = None THEN Throws("invalid input for type uuid")
      ELSE IF Val(call_id) \notin 1..Len(calls)
      THEN Returns([error |-> <<"Call not found", call_id>>])
      ELSE IF fault = "second query" THEN Throws("connection refused")
      ELSE IF conversation # None
      THEN \* conversation.messages is not loaded and cannot be loaded
           \* lazily on an async session
           Throws("MissingGreenlet")
      ELSE Returns([call_id |-> call_id,
                    status |-> calls[Val(call_id)].status,
                    duration |-> 0,
                    transcript |-> "",
                    messages |-> <<>>]))

\* Claim has no column customer_id, claim_type, description or priority:
\* its constructor raises
create_claim(customer_id, claim_type, description, priority) ==
    Caught("Failed to create claim", NoExtra,
           Throws("'customer_id' is an invalid keyword argument for Claim"))

search_knowledge_base(query, category) ==
    Caught("Failed to search knowledge base", NoExtra,
      LET query_lower == lower(query)
          keep == [i \in 1..Len(KNOWLEDGE_BASE) |->
                     /\ ~(Truthy(category)
                          /\ KNOWLEDGE_BASE[i].category # Val(category))
                     /\ \/ Contains(query_lower,
                                    lower(KNOWLEDGE_BASE[i].title))
                        \/ Contains(query_lower,
                                    lower(KNOWLEDGE_BASE[i].content))]
          results == SelectRows(KNOWLEDGE_BASE, keep)
      IN Returns([results |-> results, count |-> Len(results),
                  query |-> query]))

get_product_info(product_id) ==
    Caught("Failed to get product info", NoExtra,
      LET found == {i \in 1..Len(PRODUCT_CATALOG) :
                        PRODUCT_CATALOG[i].id = product_id}
      IN IF found = {}
         THEN Returns([error |-> <<"Product not found", product_id>>,
                       available_products |->
                           [i \in 1..Len(PRODUCT_CATALOG) |->
                               PRODUCT_CATALOG[i].id]])
         ELSE Returns(PRODUCT_CATALOG[CHOOSE i \in found : TRUE]))

ToolCustomerIds == {"CUST-123", ""}
ToolCallIds == {None, Some(1), Some(2)}
ClaimTypes == {"refund", "complaint", "technical_issue"}
Priorities == {"low", "medium", "high", "urgent"}
Queries == {<<"refund">>, <<"REFUND", "Policy">>, <<"business", "Days">>,
            <<"information">>, <<"unicorn">>, <<>>}
Categories == {None, Some(""), Some("policy"), Some("shipping"),
               Some("support"), Some("warranty"), Some("billing")}
ProductIds == {"PROD-001", "PROD-002", "PROD-003", "PROD-999", ""}

\* one call of a tool by the tools node or by any other caller: the
\* outcome is what the caller sees, the log holds what the handler logged
tool_call(tool, args, outcome, event) ==
    /\ req' = [op |-> "tool", tool |-> tool, args |-> args]
    /\ resp' = outcome
    /\ log' = IF outcome.kind = "return"
                 /\ "error" \in DOMAIN outcome.value
                 /\ outcome.value.error[1] = event[1]
              THEN <<LogRec(event[2], None)>> ELSE <<>>
    /\ UNCHANGED <<api_keys, calls, now, shown, aux>>

get_customer_info_call(customer_id) ==
    tool_call("get_customer_info", [customer_id |-> customer_id],
              get_customer_info(customer_id),
              <<"Failed to get customer info",
                "Error getting customer info">>)

get_call_history_call(call_id, fault, conversation) ==
    tool_call("get_call_history",
              [call_id |-> call_id, fault |-> fault,
               conversation |-> conversation],
              get_call_history(call_id, fault, conversation),
              <<"Failed to get call history", "Error getting call history">>)

create_claim_call(customer_id, claim_type, description, priority) ==
    tool_call("create_claim",
              [customer_id |-> customer_id, claim_type |-> claim_type,
               description |-> description, priority |-> priority],
              create_claim(customer_id, claim_type, description, priority),
              <<"Failed to create claim", "Error creating claim">>)

search_knowledge_base_call(query, category) ==
    tool_call("search_knowledge_base",
              [query |-> query, category |-> category],
              search_knowledge_base(query, category),
              <<"Failed to search knowledge base",
                "Error searching knowledge base">>)

get_product_info_call(product_id) ==
    tool_call("get_product_info", [product_id |-> product_id],
              get_product_info(product_id),
              <<"Failed to get product info", "Error getting product info">>)

\* the store holds no call, or one call placed earlier
InitTools ==
    /\ calls \in {<<>>, <<[phone_number |-> "+15550001",
                           status |-> "initiated",
                           direction |-> "outbound",
                           created_at |-> 0, ended_at |-> None]>>}
    /\ api_keys = <<>>
    /\ now = 0
    /\ req = Request("none", None, "", "none", FALSE, None)
    /\ resp = Response(0, "", {}, <<>>, <<>>)
    /\ log = <<>>
    /\ shown = <<>>
    /\ is_valid_result = None
    /\ identifier = None
    /\ served = [id \in Identities |-> 0]
    /\ hits = [id \in Identities |-> 0]
    /\ settings = DefaultSettings
    /\ provider = NewProvider("none")
    /\ agent = NoInvocation
    /\ InitMore

NextTools ==
    \/ \E customer_id \in ToolCustomerIds : get_customer_info_call(customer_id)
    \/ \E call_id \in ToolCallIds, fault \in ToolFaults,
          conversation \in {None, Some("conversation")} :
          get_call_history_call(call_id, fault, conversation)
    \/ \E customer_id \in ToolCustomerIds, claim_type \in ClaimTypes,
          priority \in Priorities :
          create_claim_call(customer_id, claim_type, "damaged item", priority)
    \/ \E query \in Queries, category \in Categories :
          search_knowledge_base_call(query, category)
    \/ \E product_id \in ProductIds : get_product_info_call(product_id)

SpecTools == InitTools /\ [][NextTools]_vars

\* ------------------------------------------------ providers/*/factory.py
\* core/config.py: the vendors of each family
STTProviderEnum == {"deepgram", "whisper", "assemblyai", "azure"}
TTSProviderEnum == {"elevenlabs", "openai", "azure"}
TelephonyProviderEnum == {"twilio", "vonage", "bandwidth", "telnyx"}
Families == {"stt", "tts", "telephony"}

\* the settings that name credentials
CredentialNames ==
    {"deepgram_api_key", "assemblyai_api_key", "azure_speech_key",
     "azure_speech_region", "elevenlabs_api_key", "openai_api_key",
     "twilio_account_sid", "twilio_auth_token"}

\* core/config.py: the provider part of Settings; every credential in
\* present holds a key, every other one holds absent (None or "")
ProviderSettings(stt, stt_fallbacks, tts, tts_fallbacks, telephony, present, absent) ==
    [stt_primary_provider |-> stt,
     stt_fallback_providers |-> stt_fallbacks,
     tts_primary_provider |-> tts,
     tts_fallback_providers |-> tts_fallbacks,
     telephony_provider |-> telephony]
    @@ [c \in CredentialNames |->
            IF c \in present THEN Some("secret") ELSE absent]

ProviderNotAvailableError(message, name) ==
    Throws([type |-> "ProviderNotAvailableError", message |-> message,
            provider |-> name])
NotImplementedError(message) ==
    Throws([type |-> "NotImplementedError", message |-> message,
            provider |-> ""])

\* get_stt_provider with the credential checks after the TODO branches
get_stt_provider_unimplemented_first(provider_name) ==
    LET name == IF provider_name = None THEN settings.stt_primary_provider
                ELSE Val(provider_name) IN
    IF name = "deepgram" THEN
        IF ~Truthy(settings.deepgram_api_key)
        THEN ProviderNotAvailableError("Deepgram API key not configured",
                                       "deepgram")
        ELSE Returns(NewProvider("deepgram"))
    ELSE IF name = "whisper" THEN Returns(NewProvider("whisper"))
    ELSE IF name = "assemblyai"
    THEN NotImplementedError("AssemblyAI provider not yet implemented")
    ELSE IF name = "azure"
    THEN NotImplementedError("Azure Speech provider not yet implemented")
    ELSE ProviderNotAvailableError("Unknown STT provider", name)

get_stt_provider(provider_name) ==
    LET name == IF provider_name = None THEN settings.stt_primary_provider
                ELSE Val(provider_name) IN
    IF name = "deepgram" THEN
        IF ~Truthy(settings.deepgram_api_key)
        THEN ProviderNotAvailableError("Deepgram API key not configured",
                                       "deepgram")
        ELSE Returns(NewProvider("deepgram"))
    ELSE IF name = "whisper" THEN Returns(NewProvider("whisper"))
    ELSE IF name = "assemblyai" THEN
        IF ~Truthy(settings.assemblyai_api_key)
        THEN ProviderNotAvailableError("AssemblyAI API key not configured",
                                       "assemblyai")
        ELSE NotImplementedError("AssemblyAI provider not yet implemented")
    ELSE IF name = "azure" THEN
        IF ~Truthy(settings.azure_speech_key)
           \/ ~Truthy(settings.azure_speech_region)
        THEN ProviderNotAvailableError(
                 "Azure Speech credentials not configured", "azure")
        ELSE NotImplementedError("Azure Speech provider not yet implemented")
    ELSE ProviderNotAvailableError("Unknown STT provider", name)

get_tts_provider(provider_name) ==
    LET name == IF provider_name = None THEN settings.tts_primary_provider
                ELSE Val(provider_name) IN
    IF name = "elevenlabs" THEN
        IF ~Truthy(settings.elevenlabs_api_key)
        THEN ProviderNotAvailableError("ElevenLabs API key not configured",
                                       "elevenlabs")
        ELSE Returns(NewProvider("elevenlabs"))
    ELSE IF name = "openai" THEN
        IF ~Truthy(settings.openai_api_key)
        THEN ProviderNotAvailableError("OpenAI API key not configured",
                                       "openai")
        ELSE Returns(NewProvider("openai"))
    ELSE IF name = "azure" THEN
        IF ~Truthy(settings.azure_speech_key)
           \/ ~Truthy(settings.azure_speech_region)
        THEN ProviderNotAvailableError(
                 "Azure Speech credentials not configured", "azure")
        ELSE NotImplementedError("Azure TTS provider not yet implemented")
    ELSE ProviderNotAvailableError("Unknown TTS provider", name)

get_telephony_provider(provider_name) ==
    LET name == IF provider_name = None THEN settings.telephony_provider
                ELSE Val(provider_name) IN
    IF name = "twilio" THEN
        IF ~Truthy(settings.twilio_account_sid)
           \/ ~Truthy(settings.twilio_auth_token)
        THEN ProviderNotAvailableError("Twilio credentials not configured",
                                       "twilio")
        ELSE Returns(NewProvider("twilio"))
    ELSE IF name = "vonage"
    THEN NotImplementedError("Vonage provider not yet implemented")
    ELSE IF name = "bandwidth"
    THEN NotImplementedError("Bandwidth provider not yet implemented")
    ELSE IF name = "telnyx"
    THEN NotImplementedError("Telnyx provider not yet implemented")
    ELSE ProviderNotAvailableError("Unknown telephony provider", name)

\* the vendors of a family and its factory
VendorsOf(family) ==
    IF family = "stt" THEN STTProviderEnum
    ELSE IF family = "tts" THEN TTSProviderEnum
    ELSE TelephonyProviderEnum
Factory(family, provider_name) ==
    IF family = "stt" THEN get_stt_provider(provider_name)
    ELSE IF family = "tts" THEN get_tts_provider(provider_name)
    ELSE get_telephony_provider(provider_name)

\* one call of a factory; the except clause logs and re-raises
get_provider(family, provider_name) ==
    LET made == Factory(family, provider_name) IN
    /\ req' = [op |-> "get_provider", family |-> family,
               provider_name |-> provider_name]
    /\ resp' = made
    /\ log' = IF made.kind = "raise"
              THEN <<LogRec("Failed to initialize provider", None)>>
              ELSE <<>>
    /\ UNCHANGED <<api_keys, calls, now, shown, aux>>

\* every configuration of vendors and credentials, the fallback lists as
\* shipped
InitFactory ==
    /\ \E stt \in STTProviderEnum, tts \in TTSProviderEnum,
          telephony \in TelephonyProviderEnum,
          present \in SUBSET CredentialNames, absent \in {None, Some("")} :
          settings = DefaultSettings
                     @@ ProviderSettings(stt, <<"whisper">>, tts,
                                         <<"openai">>, telephony, present,
                                         absent)
    /\ provider = NewProvider("none")
    /\ agent = NoInvocation
    /\ InitMore
    /\ api_keys = <<>>
    /\ calls = <<>>
    /\ now = 0
    /\ req = Request("none", None, "", "none", FALSE, None)
    /\ resp = Response(0, "", {}, <<>>, <<>>)
    /\ log = <<>>
    /\ shown = <<>>
    /\ is_valid_result = None
    /\ identifier = None
    /\ served = [id \in Identities |-> 0]
    /\ hits = [id \in Identities |-> 0]

NextFactory ==
    \E family \in Families :
        \E provider_name \in {None} \cup {Some(v) : v \in VendorsOf(family)} :
            get_provider(family, provider_name)

SpecFactory == InitFactory /\ [][NextFactory]_vars

\* ------------------------- providers/{stt,tts}/factory.py: with_fallback
\* `await provider.initialize()` on the object the accessor has just
\* constructed and shares with nobody: Whisper's await of load_model is
\* over when the accessor goes on
initialize_awaited(p, fail) ==
    IF p.kind # "whisper" THEN initialize(p, fail)
    ELSE IF p._initialized THEN [provider |-> p, raised |-> FALSE]
    ELSE IF fail THEN [provider |-> p, raised |-> TRUE]
    ELSE [provider |-> WithNewClient(p), raised |-> FALSE]

\* the chain with the fallbacks before the primary
Chain_fallbacks_first(family) ==
    IF family = "stt"
    THEN settings.stt_fallback_providers \o <<settings.stt_primary_provider>>
    ELSE settings.tts_fallback_providers \o <<settings.tts_primary_provider>>

\* the candidates in the order the accessor tries them
Chain(family) ==
    IF family = "stt"
    THEN <<settings.stt_primary_provider>> \o settings.stt_fallback_providers
    ELSE <<settings.tts_primary_provider>> \o settings.tts_fallback_providers

\* the body of one try block: construct, initialize, health check.
\* raised names the exception that left the block, health the value
\* health_check returned
Attempt(family, name, init_fail, vendor_ok) ==
    LET made == Factory(family, Some(name)) IN
    IF made.kind = "raise"
    THEN [name |-> name, constructed |-> FALSE, initialized |-> FALSE,
          health |-> None, provider |-> None,
          raised |-> Some(made.value.type)]
    ELSE LET r == initialize_awaited(made.value, init_fail) IN
         IF r.raised
         THEN [name |-> name, constructed |-> TRUE, initialized |-> FALSE,
               health |-> None, provider |-> Some(r.provider),
               raised |-> Some("ProviderError")]
         ELSE [name |-> name, constructed |-> TRUE, initialized |-> TRUE,
               health |-> Some(provider_health(r.provider, vendor_ok)),
               provider |-> Some(r.provider), raised |-> None]

\* the accessor returning every provider it could initialise
Accepts_unchecked(a) == a.initialized

\* `if await provider.health_check(): return provider`
Accepts(a) == a.health = Some(TRUE)

\* get_stt_provider_with_fallback / get_tts_provider_with_fallback is
\* called
with_fallback(family) ==
    /\ access.status = "idle"
    /\ access' = Access(family, "trying", 1, <<>>, None, "")
    /\ req' = [op |-> "with_fallback", family |-> family]
    /\ UNCHANGED <<api_keys, calls, now, resp, log, shown, is_valid_result,
                   identifier, served, hits, settings, provider, agent,
                   conn, sessions, orm, stream>>

\* the accessor tries its next candidate: the primary, then each fallback
try_candidate(init_fail, vendor_ok) ==
    /\ access.status = "trying"
    /\ access.next <= Len(Chain(access.family))
    /\ LET a == Attempt(access.family, Chain(access.family)[access.next],
                        init_fail, vendor_ok)
           role == IF access.next = 1 THEN "primary" ELSE "fallback"
       IN
       /\ access' =
            IF Accepts(a)
            THEN [access EXCEPT !.status = "returned",
                                !.attempts = Append(@, a),
                                !.result = a.provider]
            ELSE [access EXCEPT !.next = @ + 1, !.attempts = Append(@, a)]
       /\ log' = IF Accepts(a) THEN <<LogRec(<<"Using", role>>, None)>>
                 ELSE IF a.raised # None
                 THEN <<LogRec(<<"failed", role>>, None)>>
                 ELSE <<>>
    /\ UNCHANGED <<api_keys, calls, now, req, resp, shown, is_valid_result,
                   identifier, served, hits, settings, provider, agent,
                   conn, sessions, orm, stream>>

\* the chain is used up
no_provider_available ==
    /\ access.status = "trying"
    /\ access.next > Len(Chain(access.family))
    /\ access' = [access EXCEPT
                    !.status = "raised",
                    !.error = IF access.family = "stt"
                              THEN "No STT provider available"
                              ELSE "No TTS provider available"]
    /\ UNCHANGED <<api_keys, calls, now, req, resp, log, shown,
                   is_valid_result, identifier, served, hits, settings,
                   provider, agent, conn, sessions, orm, stream>>

STTFallbackLists ==
    {<<"whisper">>, <<>>, <<"assemblyai", "whisper">>, <<"azure", "deepgram">>}
TTSFallbackLists == {<<"openai">>, <<>>, <<"azure", "elevenlabs">>}

InitFallback ==
    /\ \E stt \in STTProviderEnum, tts \in TTSProviderEnum,
          stt_fallbacks \in STTFallbackLists,
          tts_fallbacks \in TTSFallbackLists,
          present \in SUBSET (CredentialNames
                              \ {"twilio_account_sid", "twilio_auth_token"}) :
          settings = DefaultSettings
                     @@ ProviderSettings(stt, stt_fallbacks, tts,
                                         tts_fallbacks, "twilio", present,
                                         None)
    /\ provider = NewProvider("none")
    /\ agent = NoInvocation
    /\ access = NoAccess
    /\ conn = NoConnection
    /\ sessions = NoSessions
    /\ orm = NoRows
    /\ stream = NoStream
    /\ api_keys = <<>>
    /\ calls = <<>>
    /\ now = 0
    /\ req = Request("none", None, "", "none", FALSE, None)
    /\ resp = Response(0, "", {}, <<>>, <<>>)
    /\ log = <<>>
    /\ shown = <<>>
    /\ is_valid_result = None
    /\ identifier = None
    /\ served = [id \in Identities |-> 0]
    /\ hits = [id \in Identities |-> 0]

NextFallback ==
    \/ \E family \in {"stt", "tts"} : with_fallback(family)
    \/ \E init_fail \in BOOLEAN, vendor_ok \in BOOLEAN :
          try_candidate(init_fail, vendor_ok)
    \/ no_provider_available

SpecFallback == InitFallback /\ [][NextFallback]_vars

\* ------------------------------------------------ api/routers/streaming.py
\* the value of a character of the base64 alphabet
Sextet(ch) ==
    CASE ch = "A" -> 0
      [] ch = "B" -> 1
      [] ch = "C" -> 2
      [] ch = "D" -> 3
      [] ch = "I" -> 8
      [] ch = "Q" -> 16
      [] ch = "=" -> 0
      [] OTHER -> 63

\* the bytes of one group of four characters; "=" pads the last group
Group(g) ==
    LET bits == ((Sextet(g[1]) * 64 + Sextet(g[2])) * 64 + Sextet(g[3])) * 64
                + Sextet(g[4])
        three == <<bits \div 65536, (bits \div 256) % 256, bits % 256>>
    IN IF g[3] = "=" THEN SubSeq(three, 1, 1)
       ELSE IF g[4] = "=" THEN SubSeq(three, 1, 2)
       ELSE three

RECURSIVE Groups(_)
Groups(data) ==
    IF data = <<>> THEN <<>>
    ELSE Group(SubSeq(data, 1, 4)) \o Groups(SubSeq(data, 5, Len(data)))

\* base64.b64decode of a payload of characters of the base64 alphabet: the
\* bytes, or binascii.Error when the padding is wrong
b64decode(data) ==
    IF Len(data) % 4 = 0 THEN Returns(Groups(data))
    ELSE Throws("Incorrect padding")

\* the JSON objects a client of /stream/direct sends; an absent key is None
DirectMessage(type, session_id, data, text) ==
    [type |-> type, session_id |-> session_id, data |-> data, text |-> text]
DirectMessages ==
    {DirectMessage(Some("init"), Some("test-123"), None, None),
     DirectMessage(Some("init"), None, None, None),
     DirectMessage(Some("audio"), None, Some(<<"A", "A", "A", "A">>), None),
     DirectMessage(Some("audio"), None, Some(<<"A", "A", "A">>), None),
     DirectMessage(Some("text"), None, None, Some("Hello")),
     DirectMessage(Some("invalid_type"), None, None, None),
     DirectMessage(None, None, None, None)}

\* message.get(key, default)
Get(field, default) == IF field = None THEN default ELSE Val(field)

\* the JSON objects Twilio sends to /stream/twilio: the keys event, start
\* and media, an absent key is None. A media object has the key payload
\* (Twilio's format) and may have a key media with an object of its own.
TwilioEvent(event, start, media) ==
    [event |-> event, start |-> start, media |-> media]
Media(payload, nested) ==
    Some([payload |-> payload,
          media |-> IF nested = None THEN None
                    ELSE Some([payload |-> nested])])
TwilioEvents ==
    {TwilioEvent(Some("connected"), None, None),
     TwilioEvent(Some("start"), Some([streamSid |-> Some("MZ123"),
                                      callSid |-> Some("CA123")]), None),
     TwilioEvent(Some("media"), None, Media(Some(<<"A", "Q", "I", "D">>), None)),
     TwilioEvent(Some("media"), None, Media(None, Some(<<"A", "Q", "I">>))),
     TwilioEvent(Some("mark"), None, None),
     TwilioEvent(Some("stop"), None, None),
     TwilioEvent(None, None, None)}

\* media events whose payloads differ, in Twilio's format and with the
\* payload one level deeper
PayloadEvents ==
    {TwilioEvent(Some("start"), Some([streamSid |-> Some("MZ123"),
                                      callSid |-> Some("CA123")]), None),
     TwilioEvent(Some("media"), None, Media(Some(<<"A", "Q", "I", "D">>), None)),
     TwilioEvent(Some("media"), None, Media(None, Some(<<"A", "Q", "=", "=">>)))}

\* no transcription was made for the message read last
NotTranscribed == [kind |-> "none", value |-> None]

\* what stt_provider.transcribe gives: an STTResult or an exception
STTResult(text, is_final) ==
    Returns([text |-> text, is_final |-> is_final, confidence |-> 1])
Transcriptions ==
    {STTResult("Hello", TRUE), STTResult("Hello", FALSE),
     STTResult("", TRUE), Throws("transcription failed")}

\* the events agent.stream_events yields
StreamEvents ==
    {[event |-> "on_chat_model_stream", content |-> "Hi", name |-> ""],
     [event |-> "on_chat_model_stream", content |-> "", name |-> ""],
     [event |-> "on_tool_start", content |-> "", name |-> "get_product_info"],
     [event |-> "on_tool_end", content |-> "", name |-> "get_product_info"],
     [event |-> "on_chain_start", content |-> "", name |-> "agent"]}

\* the handling of inbound message event, at stage, after yielded events
\* of the agent's stream
Turn(event, stage, yielded, text) ==
    Some([event |-> event, stage |-> stage, yielded |-> yielded,
          text |-> text])
Handling == Val(conn.turn)

\* websocket.send_json(message) while inbound message cause is handled
Sent(c, message, cause) ==
    [c EXCEPT !.out = Append(@, message @@ [cause |-> cause])]

\* the number of frames handle_media buffers before it processes them
BufferedFrames == 10

\* await websocket.accept(); handler = ...Handler(websocket)
ws_accept(endpoint) ==
    /\ conn = NoConnection
    /\ conn' = Connection(endpoint, "open")
    /\ UNCHANGED <<api_keys, calls, now, req, resp, log, shown,
                   is_valid_result, identifier, served, hits, settings,
                   provider, agent, access, sessions, orm, stream>>

\* the peer closes: receive raises WebSocketDisconnect and the loop ends
ws_disconnect ==
    /\ conn.status = "open"
    /\ conn.turn = None
    /\ conn' = [conn EXCEPT !.status = "disconnected"]
    /\ log' = <<LogRec("WebSocket disconnected", None)>>
    /\ UNCHANGED <<api_keys, calls, now, req, resp, shown,
                   is_valid_result, identifier, served, hits, settings,
                   provider, agent, access, sessions, orm, stream>>

\* handler.initialize swallowing the exception of a factory
initialize_handler_keeping_open(c, n) ==
    LET stt == get_stt_provider(None)
        tts == get_tts_provider(None)
    IN IF stt.kind = "raise" THEN c
       ELSE IF tts.kind = "raise"
       THEN [c EXCEPT !.stt_provider = Some(stt.value)]
       ELSE [c EXCEPT !.stt_provider = Some(stt.value),
                      !.tts_provider = Some(tts.value),
                      !.agent = Some(n)]

\* handler.initialize of both handlers: the attributes after it and
\* whether it raised; a factory that raises leaves the attributes assigned
\* before it and ends the read loop
initialize_handler(c, n) ==
    LET stt == get_stt_provider(None)
        tts == get_tts_provider(None)
    IN IF stt.kind = "raise" THEN [c EXCEPT !.status = "failed"]
       ELSE IF tts.kind = "raise"
       THEN [c EXCEPT !.stt_provider = Some(stt.value), !.status = "failed"]
       ELSE [c EXCEPT !.stt_provider = Some(stt.value),
                      !.tts_provider = Some(tts.value),
                      !.agent = Some(n)]

\* direct_stream reading while a turn is in progress
direct_stream_receive_any_time(message) ==
    /\ conn.endpoint = "direct"
    /\ conn.status = "open"
    /\ conn.read < MaxEvents
    /\ LET n == conn.read + 1
           c == [conn EXCEPT !.read = n]
       IN
       /\ req' = message @@ [op |-> "ws_message", n |-> n]
       /\ conn' = IF message.type = Some("text")
                  THEN [c EXCEPT !.turn = Turn(n, "stream", 0,
                                               Get(message.text, ""))]
                  ELSE c
       /\ log' = <<>>
    /\ UNCHANGED <<api_keys, calls, now, resp, shown,
                   is_valid_result, identifier, served, hits, settings,
                   provider, agent, access, sessions, orm, stream>>

\* direct_stream reads one message and runs its handling up to the first
\* await of a send, a transcription or the agent's stream
direct_stream_receive(message) ==
    /\ conn.endpoint = "direct"
    /\ conn.status = "open"
    /\ conn.turn = None
    /\ conn.read < MaxEvents
    /\ LET n == conn.read + 1
           c == [conn EXCEPT !.read = n]
       IN
       /\ req' = message @@ [op |-> "ws_message", n |-> n]
       /\ resp' = NotTranscribed
       /\ IF message.type = Some("init") THEN
             LET session_id == Get(message.session_id, "unknown")
                 h == initialize_handler(
                          [c EXCEPT !.session_id = Some(session_id)], n)
             IN
             /\ conn' = IF h.status = "failed" THEN h
                        ELSE [h EXCEPT !.turn = Turn(n, "send_ready", 0,
                                                     session_id)]
             /\ log' = IF h.status = "failed"
                       THEN <<LogRec("Error in Direct WebSocket", None)>>
                       ELSE <<LogRec("DirectStreamHandler initialized",
                                     None)>>
          ELSE IF message.type = Some("audio") THEN
             LET audio_data == b64decode(Get(message.data, <<>>)) IN
             /\ conn' = IF audio_data.kind = "raise"
                        THEN [c EXCEPT !.status = "failed"]
                        ELSE [c EXCEPT !.turn = Turn(n, "transcribe", 0, "")]
             /\ log' = IF audio_data.kind = "raise"
                       THEN <<LogRec("Error in Direct WebSocket", None)>>
                       ELSE <<>>
          ELSE IF message.type = Some("text") THEN
             /\ conn' = [c EXCEPT !.turn = Turn(n, "stream", 0,
                                                Get(message.text, ""))]
             /\ log' = <<>>
          ELSE
             /\ conn' = c
             /\ log' = <<LogRec("Unknown message type", None)>>
    /\ UNCHANGED <<api_keys, calls, now, shown,
                   is_valid_result, identifier, served, hits, settings,
                   provider, agent, access, sessions, orm, stream>>

\* direct_stream sends ready after handler.initialize returned
send_ready ==
    /\ conn.endpoint = "direct"
    /\ conn.turn # None
    /\ Handling.stage = "send_ready"
    /\ conn' = [Sent(conn, [type |-> "ready", session_id |-> Handling.text],
                     Handling.event)
                EXCEPT !.turn = None]
    /\ UNCHANGED <<api_keys, calls, now, req, resp, log, shown,
                   is_valid_result, identifier, served, hits, settings,
                   provider, agent, access, sessions, orm, stream>>

\* send_error(str(e)) in the except clause of handle_audio / handle_text
send_error(c, error, cause) ==
    [Sent(c, [type |-> "error", error |-> error], cause)
     EXCEPT !.turn = None]

\* handle_audio after `await self.stt_provider.transcribe(...)`
handle_audio_transcribed(result) ==
    /\ conn.endpoint = "direct"
    /\ conn.turn # None
    /\ Handling.stage = "transcribe"
    /\ resp' = IF conn.stt_provider = None THEN resp ELSE result
    /\ IF conn.stt_provider = None
       THEN /\ conn' = send_error(conn, "'NoneType' object has no attribute 'transcribe'",
                                  Handling.event)
            /\ log' = <<LogRec("Error handling audio", None)>>
       ELSE IF result.kind = "raise"
       THEN /\ conn' = send_error(conn, result.value, Handling.event)
            /\ log' = <<LogRec("Error handling audio", None)>>
       ELSE IF result.value.text # "" /\ result.value.is_final
       THEN /\ conn' = [Sent(conn, [type |-> "transcription",
                                    text |-> result.value.text,
                                    confidence |-> result.value.confidence],
                             Handling.event)
                        EXCEPT !.turn = Turn(Handling.event, "stream", 0,
                                             result.value.text)]
            /\ log' = <<>>
       ELSE /\ conn' = [conn EXCEPT !.turn = None]
            /\ log' = <<>>
    /\ UNCHANGED <<api_keys, calls, now, req, shown,
                   is_valid_result, identifier, served, hits, settings,
                   provider, agent, access, sessions, orm, stream>>

\* handle_text on a handler that has no agent: self.agent.stream_events
\* raises AttributeError
handle_text_without_agent ==
    /\ conn.endpoint = "direct"
    /\ conn.turn # None
    /\ Handling.stage = "stream"
    /\ conn.agent = None
    /\ conn' = send_error(conn, "'NoneType' object has no attribute 'stream_events'",
                          Handling.event)
    /\ log' = <<LogRec("Error handling text", None)>>
    /\ UNCHANGED <<api_keys, calls, now, req, resp, shown,
                   is_valid_result, identifier, served, hits, settings,
                   provider, agent, access, sessions, orm, stream>>

\* forwarding every event, an empty model chunk included
Forwarded_every_chunk(chunk) ==
    IF chunk.event = "on_chat_model_stream"
    THEN Some([type |-> "text_chunk", content |-> chunk.content])
    ELSE IF chunk.event = "on_tool_start"
    THEN Some([type |-> "tool_start", tool |-> chunk.name])
    ELSE IF chunk.event = "on_tool_end"
    THEN Some([type |-> "tool_end", tool |-> chunk.name])
    ELSE None

\* the message handle_text sends for one event of the stream, if any
Forwarded(chunk) ==
    IF chunk.event = "on_chat_model_stream"
    THEN (IF chunk.content # ""
          THEN Some([type |-> "text_chunk", content |-> chunk.content])
          ELSE None)
    ELSE IF chunk.event = "on_tool_start"
    THEN Some([type |-> "tool_start", tool |-> chunk.name])
    ELSE IF chunk.event = "on_tool_end"
    THEN Some([type |-> "tool_end", tool |-> chunk.name])
    ELSE None

\* one pass of the loop over agent.stream_events in handle_text
handle_text_event(chunk) ==
    /\ conn.endpoint = "direct"
    /\ conn.turn # None
    /\ Handling.stage = "stream"
    /\ conn.agent # None
    /\ Handling.yielded < MaxStream
    /\ LET c == [conn EXCEPT !.turn = Turn(Handling.event, "stream",
                                           Handling.yielded + 1,
                                           Handling.text)]
       IN conn' = IF Forwarded(chunk) = None THEN c
                  ELSE Sent(c, Val(Forwarded(chunk)), Handling.event)
    /\ UNCHANGED <<api_keys, calls, now, req, resp, log, shown,
                   is_valid_result, identifier, served, hits, settings,
                   provider, agent, access, sessions, orm, stream>>

\* the stream of events ends, exhausted or by an exception
handle_text_end(failed) ==
    /\ conn.endpoint = "direct"
    /\ conn.turn # None
    /\ Handling.stage = "stream"
    /\ conn.agent # None
    /\ conn' = IF failed
               THEN send_error(conn, "stream failed", Handling.event)
               ELSE [Sent(conn, [type |-> "response_complete"],
                          Handling.event)
                     EXCEPT !.turn = None]
    /\ log' = IF failed THEN <<LogRec("Error handling text", None)>>
              ELSE <<>>
    /\ UNCHANGED <<api_keys, calls, now, req, resp, shown,
                   is_valid_result, identifier, served, hits, settings,
                   provider, agent, access, sessions, orm, stream>>

\* the if / elif chain of twilio_media_stream sending every event that is
\* no start, stop or mark to handle_media
HandlerFor_media_by_default(event) ==
    IF event = Some("start") THEN "handle_start"
    ELSE IF event = Some("stop") THEN "handle_stop"
    ELSE IF event = Some("mark") THEN "handle_mark"
    ELSE "handle_media"

\* the if / elif chain of twilio_media_stream
HandlerFor(event) ==
    IF event = Some("start") THEN "handle_start"
    ELSE IF event = Some("media") THEN "handle_media"
    ELSE IF event = Some("stop") THEN "handle_stop"
    ELSE IF event = Some("mark") THEN "handle_mark"
    ELSE "unknown"

\* twilio_media_stream hands data.get("media", {}) to handle_media, which
\* reads data.get("media", {}).get("payload", "") of what it is given
handle_media_payload_of_event(data) ==
    Get(Get(data.media, [payload |-> None, media |-> None]).payload, <<>>)
handle_media_payload(data) ==
    LET given == Get(data.media, [payload |-> None, media |-> None])
    IN Get(Get(given.media, [payload |-> None]).payload, <<>>)

\* the condition under which handle_media calls process_audio
ShouldProcess_after_ten(buffer) == Len(buffer) > BufferedFrames
ShouldProcess(buffer) == Len(buffer) >= BufferedFrames

\* b"".join(self.audio_buffer)
RECURSIVE Join(_)
Join(chunks) ==
    IF chunks = <<>> THEN <<>> ELSE Head(chunks) \o Join(Tail(chunks))

\* one call of process_audio: the event that caused it, the chunks it
\* drained, the bytes it handed to transcribe (None when there is no STT
\* provider), the agent invocation it made and the outcome it ended with
Run(cause, chunks, audio) ==
    [cause |-> cause, chunks |-> chunks, audio |-> audio, invoked |-> None,
     outcome |-> IF audio = None THEN "no provider" ELSE "transcribing"]

\* process_audio ends: a step failed and was logged, or nothing is left
\* to do
Finished_closing(c, outcome) ==
    [c EXCEPT !.turn = None, !.runs[Len(c.runs)].outcome = outcome,
              !.status = IF outcome \in {"transcription failed",
                                         "agent failed", "synthesis failed",
                                         "send failed"}
                         THEN "failed" ELSE @]
Finished(c, outcome) ==
    [c EXCEPT !.turn = None, !.runs[Len(c.runs)].outcome = outcome]

\* the condition under which process_audio invokes the agent
ShouldInvoke_any_text(stt_result) == stt_result.text # ""
ShouldInvoke(stt_result) == stt_result.text # "" /\ stt_result.is_final

\* twilio_media_stream reads one event and runs its handling up to the
\* first await of process_audio
twilio_media_stream_receive(data) ==
    /\ conn.endpoint = "twilio"
    /\ conn.status = "open"
    /\ conn.turn = None
    /\ conn.read < MaxFrames
    /\ LET n == conn.read + 1
           c == [conn EXCEPT !.read = n]
       IN
       /\ req' = data @@ [op |-> "ws_message", n |-> n]
       /\ IF HandlerFor(data.event) = "handle_start" THEN
             LET start == Get(data.start, [streamSid |-> None,
                                           callSid |-> None])
                 h == initialize_handler(
                          [c EXCEPT !.stream_sid = start.streamSid,
                                    !.call_sid = start.callSid], n)
             IN
             /\ conn' = h
             /\ log' = IF h.status = "failed"
                       THEN <<LogRec("Error in Twilio WebSocket", None)>>
                       ELSE <<LogRec("TwilioMediaStreamHandler initialized",
                                     None)>>
          ELSE IF HandlerFor(data.event) = "handle_media" THEN
             LET audio_data == b64decode(handle_media_payload(data))
                 buffer == Append(c.audio_buffer, audio_data.value)
             IN
             IF audio_data.kind = "raise"
             THEN /\ conn' = c
                  /\ log' = <<LogRec("Error handling media", None)>>
             ELSE IF ~ShouldProcess(buffer)
             THEN /\ conn' = [c EXCEPT !.audio_buffer = buffer]
                  /\ log' = <<>>
             ELSE IF c.stt_provider = None
             THEN /\ conn' = [c EXCEPT !.audio_buffer = <<>>,
                                       !.runs = Append(@, Run(n, buffer, None))]
                  /\ log' = <<>>
             ELSE /\ conn' = [c EXCEPT
                                !.audio_buffer = <<>>,
                                !.runs = Append(@, Run(n, buffer,
                                                       Some(Join(buffer)))),
                                !.turn = Turn(n, "transcribe", 0, "")]
                  /\ log' = <<>>
          ELSE IF HandlerFor(data.event) \in {"handle_stop", "handle_mark"}
          THEN
             /\ conn' = c
             /\ log' = IF HandlerFor(data.event) = "handle_stop"
                       THEN <<LogRec("Media stream stopped", None)>>
                       ELSE <<>>
          ELSE
             /\ conn' = c
             /\ log' = <<LogRec("Unknown event type", None)>>
    /\ UNCHANGED <<api_keys, calls, now, resp, shown,
                   is_valid_result, identifier, served, hits, settings,
                   provider, agent, access, sessions, orm, stream>>

\* process_audio after `await self.stt_provider.transcribe(...)`
process_audio_transcribed(result) ==
    /\ conn.endpoint = "twilio"
    /\ conn.turn # None
    /\ Handling.stage = "transcribe"
    /\ resp' = result
    /\ IF result.kind = "raise"
       THEN /\ conn' = Finished(conn, "transcription failed")
            /\ log' = <<LogRec("Error processing audio", None)>>
       ELSE IF ShouldInvoke(result.value) /\ conn.agent # None
       THEN /\ conn' = [conn EXCEPT
                          !.turn = Turn(Handling.event, "invoke", 0,
                                        result.value.text),
                          !.runs[Len(conn.runs)].invoked =
                              Some([message |-> result.value.text,
                                    call_id |-> conn.call_sid]),
                          !.runs[Len(conn.runs)].outcome = "invoking"]
            /\ log' = <<LogRec("Transcribed", None)>>
       ELSE /\ conn' = Finished(conn, "no transcript")
            /\ log' = <<>>
    /\ UNCHANGED <<api_keys, calls, now, req, shown,
                   is_valid_result, identifier, served, hits, settings,
                   provider, agent, access, sessions, orm, stream>>

\* process_audio after `await self.agent.invoke(...)`
process_audio_replied(failed) ==
    /\ conn.endpoint = "twilio"
    /\ conn.turn # None
    /\ Handling.stage = "invoke"
    /\ conn' = IF failed THEN Finished(conn, "agent failed")
               ELSE IF conn.tts_provider = None
               THEN Finished(conn, "no provider")
               ELSE [conn EXCEPT
                       !.turn = Turn(Handling.event, "synthesize", 0, "reply"),
                       !.runs[Len(conn.runs)].outcome = "synthesizing"]
    /\ log' = IF failed THEN <<LogRec("Error processing audio", None)>>
              ELSE <<LogRec("Agent response", None)>>
    /\ UNCHANGED <<api_keys, calls, now, req, resp, shown,
                   is_valid_result, identifier, served, hits, settings,
                   provider, agent, access, sessions, orm, stream>>

\* process_audio after `await self.tts_provider.synthesize(...)`:
\* send_audio sends one media message; a failing send is logged by
\* send_audio itself
process_audio_synthesized(outcome) ==
    /\ conn.endpoint = "twilio"
    /\ conn.turn # None
    /\ Handling.stage = "synthesize"
    /\ conn' = IF outcome # "sent" THEN Finished(conn, outcome)
               ELSE Finished(Sent(conn, [type |-> "media",
                                      streamSid |-> conn.stream_sid],
                               Handling.event), "sent")
    /\ log' = IF outcome = "synthesis failed"
              THEN <<LogRec("Error processing audio", None)>>
              ELSE IF outcome = "send failed"
              THEN <<LogRec("Error sending audio", None)>>
              ELSE <<>>
    /\ UNCHANGED <<api_keys, calls, now, req, resp, shown,
                   is_valid_result, identifier, served, hits, settings,
                   provider, agent, access, sessions, orm, stream>>

\* the vendors as shipped; the keys of Deepgram and ElevenLabs configured
\* or not
InitStream ==
    /\ \E present \in SUBSET {"deepgram_api_key", "elevenlabs_api_key"} :
          settings = DefaultSettings
                     @@ ProviderSettings("deepgram", <<"whisper">>,
                                         "elevenlabs", <<"openai">>,
                                         "twilio", present, None)
    /\ provider = NewProvider("none")
    /\ agent = NoInvocation
    /\ InitMore
    /\ api_keys = <<>>
    /\ calls = <<>>
    /\ now = 0
    /\ req = Request("none", None, "", "none", FALSE, None)
    /\ resp = Response(0, "", {}, <<>>, <<>>)
    /\ log = <<>>
    /\ shown = <<>>
    /\ is_valid_result = None
    /\ identifier = None
    /\ served = [id \in Identities |-> 0]
    /\ hits = [id \in Identities |-> 0]

NextStream ==
    \/ \E endpoint \in {"direct", "twilio"} : ws_accept(endpoint)
    \/ ws_disconnect
    \/ \E message \in DirectMessages : direct_stream_receive(message)
    \/ send_ready
    \/ \E result \in Transcriptions : handle_audio_transcribed(result)
    \/ handle_text_without_agent
    \/ \E chunk \in StreamEvents : handle_text_event(chunk)
    \/ \E failed \in BOOLEAN : handle_text_end(failed)
    \/ \E data \in TwilioEvents : twilio_media_stream_receive(data)
    \/ \E result \in Transcriptions : process_audio_transcribed(result)
    \/ \E failed \in BOOLEAN : process_audio_replied(failed)
    \/ \E outcome \in {"sent", "synthesis failed", "send failed"} :
          process_audio_synthesized(outcome)

SpecStream == InitStream /\ [][NextStream]_vars

\* the telephony endpoint alone, with media events of different payloads
InitTwilio ==
    /\ \E present \in {{}, {"deepgram_api_key", "elevenlabs_api_key"}} :
          settings = DefaultSettings
                     @@ ProviderSettings("deepgram", <<"whisper">>,
                                         "elevenlabs", <<"openai">>,
                                         "twilio", present, None)
    /\ provider = NewProvider("none")
    /\ agent = NoInvocation
    /\ InitMore
    /\ api_keys = <<>>
    /\ calls = <<>>
    /\ now = 0
    /\ req = Request("none", None, "", "none", FALSE, None)
    /\ resp = Response(0, "", {}, <<>>, <<>>)
    /\ log = <<>>
    /\ shown = <<>>
    /\ is_valid_result = None
    /\ identifier = None
    /\ served = [id \in Identities |-> 0]
    /\ hits = [id \in Identities |-> 0]

NextTwilio ==
    \/ ws_accept("twilio")
    \/ ws_disconnect
    \/ \E data \in PayloadEvents :
          conn.read < MaxPayloads /\ twilio_media_stream_receive(data)
    \/ \E result \in Transcriptions : process_audio_transcribed(result)
    \/ \E failed \in BOOLEAN : process_audio_replied(failed)
    \/ \E outcome \in {"sent", "synthesis failed", "send failed"} :
          process_audio_synthesized(outcome)

SpecTwilio == InitTwilio /\ [][NextTwilio]_vars

\* ============================================================ sessions
\* core/database.py: get_db and get_db_context hand out one AsyncSession
\* at their yield; the code after the yield commits, the except clause
\* rolls back and the finally clause closes. A session is described by
\* who drives the generator (via), the unit of work run with it (body),
\* whether the generator is still suspended at its yield, and what was
\* done with the session: commit is "none", "done" or "failed".
Session(via, tool) ==
    [via |-> via, tool |-> tool, body |-> "running",
     generator |-> "suspended", commit |-> "none", rollback |-> FALSE,
     closed |-> FALSE]

\* the ways a session is obtained: Depends(get_db) of the routers,
\* `async with get_db_context()`, and `async for db in get_db()` of the
\* agent tools
Scoped == {"Depends", "get_db_context"}
DatabaseTools == {"get_customer_info", "get_call_history", "create_claim"}

\* the generator resumed after its yield: commit, and when the commit
\* raises the except clause rolls back; the finally clause closes
Resumed(s, commit_fails) ==
    [s EXCEPT !.body = "returned", !.generator = "finished",
              !.commit = IF commit_fails THEN "failed" ELSE "done",
              !.rollback = commit_fails, !.closed = TRUE]

\* the exception of the unit of work thrown into the generator at its
\* yield: rollback, re-raise, close
Thrown(s) ==
    [s EXCEPT !.body = "raised", !.generator = "finished",
              !.rollback = TRUE, !.closed = TRUE]

\* GeneratorExit thrown into a generator left at its yield: it is no
\* Exception, so only the finally clause runs
Closed(s) ==
    [s EXCEPT !.generator = "finished", !.closed = TRUE]

OutsideSessions ==
    <<api_keys, calls, now, req, resp, log, shown, is_valid_result,
      identifier, served, hits, settings, provider, agent, access, conn,
      orm, stream>>

\* a router dependency or a context manager enters get_db / get_db_context
get_db(via) ==
    /\ Len(sessions) < MaxSessions
    /\ sessions' = Append(sessions, Session(via, ""))
    /\ UNCHANGED OutsideSessions

\* an agent tool starts `async for db in get_db()`
tool_get_db(tool) ==
    /\ Len(sessions) < MaxSessions
    /\ sessions' = Append(sessions, Session("async for", tool))
    /\ UNCHANGED OutsideSessions

\* the unit of work of a scoped session completes: the driver resumes
\* the generator
unit_completed(i, commit_fails) ==
    /\ sessions[i].via \in Scoped
    /\ sessions[i].body = "running"
    /\ sessions' = [sessions EXCEPT ![i] = Resumed(@, commit_fails)]
    /\ UNCHANGED OutsideSessions

\* the unit of work of a scoped session raises: the driver throws the
\* exception into the generator
unit_raised(i) ==
    /\ sessions[i].via \in Scoped
    /\ sessions[i].body = "running"
    /\ sessions' = [sessions EXCEPT ![i] = Thrown(@)]
    /\ UNCHANGED OutsideSessions

\* what the body of a tool's loop leaves when it returns from inside the
\* loop: create_claim has committed itself, and the generator is not
\* resumed
LeftInLoop(s) ==
    [s EXCEPT !.body = "returned",
              !.commit = IF s.tool = "create_claim" THEN "done" ELSE "none"]
tool_returned(i) ==
    /\ sessions[i].via = "async for"
    /\ sessions[i].body = "running"
    /\ sessions' = [sessions EXCEPT ![i] = LeftInLoop(@)]
    /\ UNCHANGED OutsideSessions

\* the body of a tool's loop raises: the exception leaves the loop for
\* the tool's except clause and is not thrown into the generator
tool_raised(i) ==
    /\ sessions[i].via = "async for"
    /\ sessions[i].body = "running"
    /\ sessions' = [sessions EXCEPT ![i].body = "raised"]
    /\ UNCHANGED OutsideSessions

\* the event loop finalises a generator nobody refers to any more
\* (aclose scheduled by the asynchronous generator hook)
asyncgen_finalized(i) ==
    /\ sessions[i].via = "async for"
    /\ sessions[i].body # "running"
    /\ sessions[i].generator = "suspended"
    /\ sessions' = [sessions EXCEPT ![i] = Closed(@)]
    /\ UNCHANGED OutsideSessions

InitSessions ==
    /\ settings = DefaultSettings
    /\ provider = NewProvider("none")
    /\ agent = NoInvocation
    /\ InitMore
    /\ api_keys = <<>>
    /\ calls = <<>>
    /\ now = 0
    /\ req = Request("none", None, "", "none", FALSE, None)
    /\ resp = Response(0, "", {}, <<>>, <<>>)
    /\ log = <<>>
    /\ shown = <<>>
    /\ is_valid_result = None
    /\ identifier = None
    /\ served = [id \in Identities |-> 0]
    /\ hits = [id \in Identities |-> 0]

NextSessions ==
    \/ \E via \in Scoped : get_db(via)
    \/ \E tool \in DatabaseTools : tool_get_db(tool)
    \/ \E i \in 1..Len(sessions), commit_fails \in BOOLEAN :
          unit_completed(i, commit_fails)
    \/ \E i \in 1..Len(sessions) : unit_raised(i)
    \/ \E i \in 1..Len(sessions) : tool_returned(i)
    \/ \E i \in 1..Len(sessions) : tool_raised(i)
    \/ \E i \in 1..Len(sessions) : asyncgen_finalized(i)

SpecSessions == InitSessions /\ [][NextSessions]_vars

\* ================================================================= rows
\* models/call.py, models/conversation.py, models/claim.py: units of work
\* on the tables calls, conversations, messages and claims. A unit of
\* work is one flush and commit; a statement the database refuses
\* (foreign key, unique or not-null constraint) raises IntegrityError
\* and the unit of work leaves the rows as they were.
RowIds == 1..MaxRows

ConversationRow(id, call_id) == [id |-> id, call_id |-> call_id]
MessageRow(id, conversation_id) ==
    [id |-> id, conversation_id |-> conversation_id]
ClaimRow(id, conversation_id) ==
    [id |-> id, conversation_id |-> conversation_id]

Ids(rows) == {r.id : r \in rows}

\* Conversation.messages and Conversation.claim: the rows whose foreign
\* key names conversation c
MessagesOf(c) == {m \in orm.messages : m.conversation_id = c}
ClaimOf(c) == {k \in orm.claims : k.conversation_id = c}

OutsideRows ==
    <<api_keys, calls, now, req, resp, log, shown, is_valid_result,
      identifier, served, hits, settings, provider, agent, access, conn,
      sessions, stream>>

\* the unit of work was refused and rolled back
Refused(op, id) ==
    [orm EXCEPT !.outcome = Outcome(op, id, "IntegrityError", {})]

add_call(id) ==
    /\ id \notin orm.calls
    /\ orm' = [orm EXCEPT !.calls = @ \cup {id},
                          !.outcome = Outcome("add_call", id, "", {})]
    /\ UNCHANGED OutsideRows

\* conversations.call_id: foreign key to calls.id, unique, not null
add_conversation(id, call_id) ==
    /\ id \notin Ids(orm.conversations)
    /\ orm' = IF call_id \in orm.calls
                 /\ \A c \in orm.conversations : c.call_id # call_id
              THEN [orm EXCEPT
                       !.conversations = @ \cup {ConversationRow(id, call_id)},
                       !.outcome = Outcome("add_conversation", id, "", {})]
              ELSE Refused("add_conversation", id)
    /\ UNCHANGED OutsideRows

\* messages.conversation_id: foreign key to conversations.id, not null
add_message(id, conversation_id) ==
    /\ id \notin Ids(orm.messages)
    /\ orm' = IF conversation_id \in Ids(orm.conversations)
              THEN [orm EXCEPT
                       !.messages = @ \cup {MessageRow(id, conversation_id)},
                       !.outcome = Outcome("add_message", id, "", {})]
              ELSE Refused("add_message", id)
    /\ UNCHANGED OutsideRows

\* claims.conversation_id: foreign key to conversations.id, unique, not
\* null
add_claim(id, conversation_id) ==
    /\ id \notin Ids(orm.claims)
    /\ orm' = IF conversation_id \in Ids(orm.conversations)
                 /\ ClaimOf(conversation_id) = {}
              THEN [orm EXCEPT
                       !.claims = @ \cup {ClaimRow(id, conversation_id)},
                       !.outcome = Outcome("add_claim", id, "", {})]
              ELSE Refused("add_claim", id)
    /\ UNCHANGED OutsideRows

\* the messages a delete of conversation c takes with it: the
\* relationship messages has cascade "all, delete-orphan"
Cascaded_nothing(c) == {}
Cascaded(c) == MessagesOf(c)

\* session.delete(conversation) and flush. The relationship claim has no
\* delete cascade: the unit of work sets claims.conversation_id of the
\* linked claim to NULL, which the not-null column refuses (and the
\* foreign key refuses the DELETE with the claim left as it is).
delete_conversation(c) ==
    /\ c \in Ids(orm.conversations)
    /\ orm' = IF ClaimOf(c) = {}
              THEN [orm EXCEPT
                       !.conversations = {r \in @ : r.id # c},
                       !.messages = @ \ Cascaded(c),
                       !.outcome = Outcome("delete_conversation", c, "",
                                           Ids(Cascaded(c)))]
              ELSE Refused("delete_conversation", c)
    /\ UNCHANGED OutsideRows

delete_message(id) ==
    /\ id \in Ids(orm.messages)
    /\ orm' = [orm EXCEPT !.messages = {m \in @ : m.id # id},
                          !.outcome = Outcome("delete_message", id, "", {})]
    /\ UNCHANGED OutsideRows

delete_claim(id) ==
    /\ id \in Ids(orm.claims)
    /\ orm' = [orm EXCEPT !.claims = {k \in @ : k.id # id},
                          !.outcome = Outcome("delete_claim", id, "", {})]
    /\ UNCHANGED OutsideRows

\* Call.conversation has no delete cascade and conversations.call_id is
\* not null
delete_call(id) ==
    /\ id \in orm.calls
    /\ orm' = IF \A c \in orm.conversations : c.call_id # id
              THEN [orm EXCEPT !.calls = @ \ {id},
                               !.outcome = Outcome("delete_call", id, "", {})]
              ELSE Refused("delete_call", id)
    /\ UNCHANGED OutsideRows

InitRows ==
    /\ settings = DefaultSettings
    /\ provider = NewProvider("none")
    /\ agent = NoInvocation
    /\ InitMore
    /\ api_keys = <<>>
    /\ calls = <<>>
    /\ now = 0
    /\ req = Request("none", None, "", "none", FALSE, None)
    /\ resp = Response(0, "", {}, <<>>, <<>>)
    /\ log = <<>>
    /\ shown = <<>>
    /\ is_valid_result = None
    /\ identifier = None
    /\ served = [id \in Identities |-> 0]
    /\ hits = [id \in Identities |-> 0]

NextRows ==
    \/ \E id \in RowIds : add_call(id)
    \/ \E id \in RowIds, call_id \in RowIds : add_conversation(id, call_id)
    \/ \E id \in RowIds, c \in RowIds : add_message(id, c)
    \/ \E id \in RowIds, c \in RowIds : add_claim(id, c)
    \/ \E c \in RowIds : delete_conversation(c)
    \/ \E id \in RowIds : delete_message(id)
    \/ \E id \in RowIds : delete_claim(id)
    \/ \E id \in RowIds : delete_call(id)

SpecRows == InitRows /\ [][NextRows]_vars

\* ============================================================ deepgram
\* providers/stt/deepgram.py: one call of transcribe_stream. The vendor's
\* connection calls on_message, on_error and on_close; each creates a
\* task that puts one item into results_queue, and the event loop runs
\* the tasks in the order of their creation (pending). stream_audio runs
\* as stream_task and forwards the chunks of audio_stream; the consumer
\* drives the generator, which takes the items of results_queue.
Result(n) == [kind |-> "result", n |-> n, by |-> "message"]
Sentinel(by) == [kind |-> "sentinel", n |-> 0, by |-> by]

\* the state right after `stream_task = asyncio.create_task(stream_audio())`
DeepgramStream(chunks) ==
    [provider |-> "deepgram", status |-> "listening", cause |-> "",
     results_queue |-> <<>>, pending |-> <<>>, stream_task |-> "running",
     audio_stream |-> chunks, sent |-> 0, sent_at_return |-> 0,
     vendor |-> "open", events |-> 0, arrived |-> <<>>, yielded |-> <<>>]

OutsideStream ==
    <<api_keys, calls, now, req, resp, log, shown, is_valid_result,
      identifier, served, hits, settings, provider, agent, access, conn,
      sessions, orm>>

transcribe_stream(chunks) ==
    /\ stream = NoStream
    /\ stream' = DeepgramStream(chunks)
    /\ UNCHANGED OutsideStream

\* on_message: a transcript event; only a non-empty transcript is queued
on_message(transcript) ==
    /\ stream.provider = "deepgram"
    /\ stream.vendor # "closed"
    /\ stream.events < MaxVendorEvents
    /\ LET n == stream.events + 1 IN
       stream' = IF transcript # ""
                 THEN [stream EXCEPT
                         !.events = n,
                         !.arrived = Append(@, [n |-> n,
                                                vendor |-> stream.vendor]),
                         !.pending = Append(@, Result(n))]
                 ELSE [stream EXCEPT !.events = n]
    /\ UNCHANGED OutsideStream

\* on_error: the vendor's connection reports an error
on_error ==
    /\ stream.provider = "deepgram"
    /\ stream.vendor # "closed"
    /\ stream.events < MaxVendorEvents
    /\ stream' = [stream EXCEPT !.events = @ + 1, !.vendor = "error",
                                !.pending = Append(@, Sentinel("error"))]
    /\ UNCHANGED OutsideStream

\* on_close: the vendor's connection closes
on_close ==
    /\ stream.provider = "deepgram"
    /\ stream.vendor # "closed"
    /\ stream.events < MaxVendorEvents
    /\ stream' = [stream EXCEPT !.events = @ + 1, !.vendor = "closed",
                                !.pending = Append(@, Sentinel("close"))]
    /\ UNCHANGED OutsideStream

\* the event loop runs the oldest task created by a callback:
\* results_queue.put(item)
put_task ==
    /\ stream.provider = "deepgram"
    /\ stream.pending # <<>>
    /\ stream' = [stream EXCEPT
                    !.pending = Tail(@),
                    !.results_queue = Append(@, Head(stream.pending))]
    /\ UNCHANGED OutsideStream

\* stream_audio: connection.send(chunk) for the next chunk
stream_audio_send ==
    /\ stream.provider = "deepgram"
    /\ stream.stream_task = "running"
    /\ stream.audio_stream > 0
    /\ stream' = [stream EXCEPT !.audio_stream = @ - 1, !.sent = @ + 1]
    /\ UNCHANGED OutsideStream

\* stream_audio: audio_stream is exhausted, or forwarding raised and the
\* except clause logged it; the finally clause puts a sentinel
stream_audio_end(failed) ==
    /\ stream.provider = "deepgram"
    /\ stream.stream_task = "running"
    /\ failed \/ stream.audio_stream = 0
    /\ stream' = [stream EXCEPT
                    !.stream_task = "finished",
                    !.results_queue = Append(@, Sentinel("audio"))]
    /\ UNCHANGED OutsideStream

\* stream_task.cancel() in the finally clause of the generator
Cancel(task) == IF task = "running" THEN "cancelling" ELSE task

\* the generator leaves its loop: the finally clause requests the
\* cancellation of stream_task and awaits it
Stopping(s, cause) ==
    [s EXCEPT !.status = "stopping", !.cause = cause,
              !.stream_task = Cancel(@)]

\* `result = await results_queue.get()`: a result is yielded, a sentinel
\* breaks the loop
results_queue_get ==
    /\ stream.provider = "deepgram"
    /\ stream.status = "listening"
    /\ stream.results_queue # <<>>
    /\ LET result == Head(stream.results_queue)
           s == [stream EXCEPT !.results_queue = Tail(@)]
       IN stream' = IF result.kind = "sentinel"
                    THEN Stopping(s, "sentinel")
                    ELSE [s EXCEPT !.yielded = Append(@, result.n)]
    /\ UNCHANGED OutsideStream

\* the consumer closes the generator at a yield (aclose), or an
\* exception is raised in the generator at its yield or its get
consumer_stops(cause) ==
    /\ stream.provider = "deepgram"
    /\ stream.status = "listening"
    /\ cause = "aclose" => stream.yielded # <<>>
    /\ stream' = Stopping(stream, cause)
    /\ UNCHANGED OutsideStream

\* stream_task runs after cancel(): CancelledError is raised at its
\* await, the finally clause puts a sentinel and the task is done
stream_task_cancelled ==
    /\ stream.provider = "deepgram"
    /\ stream.stream_task = "cancelling"
    /\ stream' = [stream EXCEPT
                    !.stream_task = "cancelled",
                    !.results_queue = Append(@, Sentinel("cancelled"))]
    /\ UNCHANGED OutsideStream

\* `await stream_task` has returned or raised CancelledError
Awaited_at_once(task) == TRUE
Awaited(task) == task \in {"finished", "cancelled"}

\* the finally clause is over and transcribe_stream returns
transcribe_stream_return ==
    /\ stream.provider = "deepgram"
    /\ stream.status = "stopping"
    /\ Awaited(stream.stream_task)
    /\ stream' = [stream EXCEPT !.status = "returned",
                                !.sent_at_return = stream.sent]
    /\ UNCHANGED OutsideStream

InitDeepgram ==
    /\ settings = DefaultSettings
    /\ provider = NewProvider("none")
    /\ agent = NoInvocation
    /\ InitMore
    /\ api_keys = <<>>
    /\ calls = <<>>
    /\ now = 0
    /\ req = Request("none", None, "", "none", FALSE, None)
    /\ resp = Response(0, "", {}, <<>>, <<>>)
    /\ log = <<>>
    /\ shown = <<>>
    /\ is_valid_result = None
    /\ identifier = None
    /\ served = [id \in Identities |-> 0]
    /\ hits = [id \in Identities |-> 0]

NextDeepgram ==
    \/ \E chunks \in 0..MaxAudio : transcribe_stream(chunks)
    \/ \E transcript \in {"Hello", ""} : on_message(transcript)
    \/ on_error
    \/ on_close
    \/ put_task
    \/ stream_audio_send
    \/ \E failed \in BOOLEAN : stream_audio_end(failed)
    \/ results_queue_get
    \/ \E cause \in {"aclose", "exception"} : consumer_stops(cause)
    \/ stream_task_cancelled
    \/ transcribe_stream_return

SpecDeepgram == InitDeepgram /\ [][NextDeepgram]_vars

\* ============================================================= whisper
\* providers/stt/whisper.py: one call of transcribe_stream. The bytes of
\* the input are numbered from 1, so that a byte is told from every
\* other; a chunk is a sequence of bytes.
chunk_size(sample_rate) == sample_rate * 2 * 5

\* the chunks of an input whose chunks have the given lengths, the first
\* byte being from + 1
RECURSIVE Chunks(_, _)
Chunks(lengths, from) ==
    IF lengths = <<>> THEN <<>>
    ELSE <<[i \in 1..Head(lengths) |-> from + i]>>
         \o Chunks(Tail(lengths), from + Head(lengths))

\* the state when the loop over audio_stream starts; texts are the texts
\* of the results of transcribe, in the order of its calls
WhisperStream(audio_stream, sample_rate) ==
    [provider |-> "whisper", status |-> "streaming",
     audio_stream |-> audio_stream, read |-> 0,
     chunk_size |-> chunk_size(sample_rate), buffer |-> <<>>,
     transcribed |-> <<>>, texts |-> <<>>, yielded |-> <<>>]

\* buffer = io.BytesIO() after a chunk was taken for transcription
Reset_keeping(buffer) == buffer
Reset(buffer) == <<>>

\* self.transcribe(audio_data) and `if result.text: yield result`; a
\* result is given by its text, and a transcription that raises ends the
\* stream with ProviderError
Transcribed(s, audio_data, result) ==
    LET passed == [s EXCEPT !.transcribed = Append(@, audio_data)] IN
    IF result.kind = "raise"
    THEN [passed EXCEPT !.status = "failed", !.texts = Append(@, "")]
    ELSE IF result.value.text # ""
    THEN [passed EXCEPT
            !.texts = Append(@, result.value.text),
            !.yielded = Append(@, [chunk |-> Len(passed.transcribed),
                                   text |-> result.value.text])]
    ELSE [passed EXCEPT !.texts = Append(@, "")]

whisper_transcribe_stream(lengths, sample_rate) ==
    /\ stream = NoStream
    /\ stream' = WhisperStream(Chunks(lengths, 0), sample_rate)
    /\ UNCHANGED OutsideStream

\* one pass of the loop over audio_stream
whisper_stream_chunk(result) ==
    /\ stream.provider = "whisper"
    /\ stream.status = "streaming"
    /\ stream.read < Len(stream.audio_stream)
    /\ LET chunk == stream.audio_stream[stream.read + 1]
           buffer == stream.buffer \o chunk
           s == [stream EXCEPT !.read = @ + 1]
       IN stream' = IF Len(buffer) >= stream.chunk_size
                    THEN Transcribed([s EXCEPT !.buffer = Reset(buffer)],
                                     buffer, result)
                    ELSE [s EXCEPT !.buffer = buffer]
    /\ UNCHANGED OutsideStream

\* audio_stream is exhausted: the remaining data is processed
whisper_stream_end(result) ==
    /\ stream.provider = "whisper"
    /\ stream.status = "streaming"
    /\ stream.read = Len(stream.audio_stream)
    /\ LET s == IF Len(stream.buffer) > 0
                THEN Transcribed(stream, stream.buffer, result)
                ELSE stream
       IN stream' = IF s.status = "failed" THEN s
                    ELSE [s EXCEPT !.status = "finished"]
    /\ UNCHANGED OutsideStream

\* the consumer closes the generator at a yield
whisper_stream_close ==
    /\ stream.provider = "whisper"
    /\ stream.status = "streaming"
    /\ stream.yielded # <<>>
    /\ stream.yielded[Len(stream.yielded)].chunk = Len(stream.transcribed)
    /\ stream' = [stream EXCEPT !.status = "closed"]
    /\ UNCHANGED OutsideStream

ChunkLengths == {0, 4, 10, 12}
SampleRates == {1, 2}
WhisperResults ==
    {STTResult("Hello", TRUE), STTResult("", TRUE),
     Throws("Transcription failed")}

InitWhisper ==
    /\ settings = DefaultSettings
    /\ provider = NewProvider("none")
    /\ agent = NoInvocation
    /\ InitMore
    /\ api_keys = <<>>
    /\ calls = <<>>
    /\ now = 0
    /\ req = Request("none", None, "", "none", FALSE, None)
    /\ resp = Response(0, "", {}, <<>>, <<>>)
    /\ log = <<>>
    /\ shown = <<>>
    /\ is_valid_result = None
    /\ identifier = None
    /\ served = [id \in Identities |-> 0]
    /\ hits = [id \in Identities |-> 0]

NextWhisper ==
    \/ \E k \in 0..MaxChunks, sample_rate \in SampleRates :
          \E lengths \in [1..k -> ChunkLengths] :
             whisper_transcribe_stream(lengths, sample_rate)
    \/ \E result \in WhisperResults : whisper_stream_chunk(result)
    \/ \E result \in WhisperResults : whisper_stream_end(result)
    \/ whisper_stream_close

SpecWhisper == InitWhisper /\ [][NextWhisper]_vars

\* ------------------- providers/stt/factory.py and providers/tts/factory.py
\* get_stt_provider_with_fallback and get_tts_provider_with_fallback run
\* side by side over chains of the same length, every call of a try
\* block having the same outcome for both: construct and initialize
\* return or raise, health_check returns true or false or raises
Calls(construct, initialize_, health_check_) ==
    [construct |-> construct, initialize |-> initialize_,
     health_check |-> health_check_]
CallOutcomes ==
    {Calls(c, i, h) : c \in {"return", "raise"}, i \in {"return", "raise"},
                      h \in {"true", "false", "raise"}}

\* what one try block did: the calls it made and whether an exception
\* left it
Tried(position, made, raised) ==
    [position |-> position, made |-> made, raised |-> raised]

\* the accessor goes on with the next candidate
Continues(a, made, raised) ==
    [a EXCEPT !.next = @ + 1,
              !.attempts = Append(@, Tried(a.next, made, raised))]

\* stt/factory.py: the try block of get_stt_provider_with_fallback for
\* the candidate at position a.next (the primary at 1, then the members
\* of settings.stt_fallback_providers)
stt_try_block(a, o) ==
    IF o.construct = "raise"
    THEN Continues(a, <<"get_provider">>, TRUE)
    ELSE IF o.initialize = "raise"
    THEN Continues(a, <<"get_provider", "initialize">>, TRUE)
    ELSE IF o.health_check = "raise"
    THEN Continues(a, <<"get_provider", "initialize", "health_check">>,
                   TRUE)
    ELSE IF o.health_check = "true"
    THEN [a EXCEPT
            !.status = "returned",
            !.attempts =
                Append(@, Tried(a.next, <<"get_provider", "initialize",
                                          "health_check">>, FALSE)),
            !.result = Some(a.next)]
    ELSE Continues(a, <<"get_provider", "initialize", "health_check">>,
                   FALSE)

\* the TTS accessor returning every provider it could initialise
tts_try_block_unchecked(a, o) ==
    IF o.construct = "raise"
    THEN Continues(a, <<"get_provider">>, TRUE)
    ELSE IF o.initialize = "raise"
    THEN Continues(a, <<"get_provider", "initialize">>, TRUE)
    ELSE [a EXCEPT
            !.status = "returned",
            !.attempts =
                Append(@, Tried(a.next, <<"get_provider", "initialize">>,
                                FALSE)),
            !.result = Some(a.next)]

\* tts/factory.py: the try block of get_tts_provider_with_fallback for
\* the candidate at position a.next (the primary at 1, then the members
\* of settings.tts_fallback_providers)
tts_try_block(a, o) ==
    IF o.construct = "raise"
    THEN Continues(a, <<"get_provider">>, TRUE)
    ELSE IF o.initialize = "raise"
    THEN Continues(a, <<"get_provider", "initialize">>, TRUE)
    ELSE IF o.health_check = "raise"
    THEN Continues(a, <<"get_provider", "initialize", "health_check">>,
                   TRUE)
    ELSE IF o.health_check = "true"
    THEN [a EXCEPT
            !.status = "returned",
            !.attempts =
                Append(@, Tried(a.next, <<"get_provider", "initialize",
                                          "health_check">>, FALSE)),
            !.result = Some(a.next)]
    ELSE Continues(a, <<"get_provider", "initialize", "health_check">>,
                   FALSE)

\* `raise ProviderNotAvailableError(...)` after the loop over the
\* fallbacks
stt_raise(a) ==
    [a EXCEPT !.status = "raised", !.error = "No STT provider available"]
tts_raise(a) ==
    [a EXCEPT !.status = "raised", !.error = "No TTS provider available"]

OutsideAccess ==
    <<api_keys, calls, now, req, resp, log, shown, is_valid_result,
      identifier, served, hits, settings, provider, agent, conn, sessions,
      orm, stream>>

\* both accessors are called, each with `fallbacks` fallback providers
\* configured
with_fallback_both(fallbacks) ==
    /\ access.status = "idle"
    /\ access' = [family |-> "both", status |-> "paired",
                  chain |-> 1 + fallbacks,
                  stt |-> Access("stt", "trying", 1, <<>>, None, ""),
                  tts |-> Access("tts", "trying", 1, <<>>, None, "")]
    /\ UNCHANGED OutsideAccess

Trying(a, chain) == a.status = "trying" /\ a.next <= chain
UsedUp(a, chain) == a.status = "trying" /\ a.next > chain

\* each accessor that has a candidate left tries it, the calls having
\* outcome o
try_candidate_both(o) ==
    /\ access.family = "both"
    /\ Trying(access.stt, access.chain) \/ Trying(access.tts, access.chain)
    /\ access' =
         [access EXCEPT
            !.stt = IF Trying(@, access.chain) THEN stt_try_block(@, o)
                    ELSE @,
            !.tts = IF Trying(@, access.chain) THEN tts_try_block(@, o)
                    ELSE @]
    /\ UNCHANGED OutsideAccess

\* each accessor whose chain is used up raises
no_provider_available_both ==
    /\ access.family = "both"
    /\ UsedUp(access.stt, access.chain) \/ UsedUp(access.tts, access.chain)
    /\ access' =
         [access EXCEPT
            !.stt = IF UsedUp(@, access.chain) THEN stt_raise(@) ELSE @,
            !.tts = IF UsedUp(@, access.chain) THEN tts_raise(@) ELSE @]
    /\ UNCHANGED OutsideAccess

InitMirror ==
    /\ settings = DefaultSettings
    /\ provider = NewProvider("none")
    /\ agent = NoInvocation
    /\ InitMore
    /\ api_keys = <<>>
    /\ calls = <<>>
    /\ now = 0
    /\ req = Request("none", None, "", "none", FALSE, None)
    /\ resp = Response(0, "", {}, <<>>, <<>>)
    /\ log = <<>>
    /\ shown = <<>>
    /\ is_valid_result = None
    /\ identifier = None
    /\ served = [id \in Identities |-> 0]
    /\ hits = [id \in Identities |-> 0]

NextMirror ==
    \/ \E fallbacks \in 0..MaxFallbacks : with_fallback_both(fallbacks)
    \/ \E o \in CallOutcomes : try_candidate_both(o)
    \/ no_provider_available_both

SpecMirror == InitMirror /\ [][NextMirror]_vars

\* ------------------------------------------------ api/routers/webhooks.py
\* the form fields of the vendor's callbacks
Forms ==
    {[CallSid |-> "CA1", CallStatus |-> s] :
        s \in {"in-progress", "completed", "failed"}}

\* a webhook request: no Auth dependency stands before these routes
WebhookRequest(op, ip, form) ==
    Request(op, None, ip, "none", TRUE, None) @@ [form |-> form]

\* POST /webhooks/twilio/voice; form_fail says that request.form() raises
twilio_voice_webhook(ip, form, form_fail) ==
    /\ req' = WebhookRequest("twilio_voice_webhook", ip, form)
    /\ resp' = IF form_fail THEN Response(500, "Error", {}, <<>>, <<>>)
               ELSE Response(200, "twiml", {}, <<>>, <<>>)
    /\ log' = IF form_fail THEN <<LogRec("Twilio webhook error", None)>>
              ELSE <<LogRec("Twilio voice webhook received", None)>>
    /\ UNCHANGED <<api_keys, calls, now, shown, aux>>

\* the status webhook writing the vendor's status into the stored calls
twilio_status_webhook_updating(ip, form, form_fail) ==
    /\ req' = WebhookRequest("twilio_status_webhook", ip, form)
    /\ resp' = IF form_fail THEN Response(200, "error", {}, <<>>, <<>>)
               ELSE Response(200, "success", {}, <<>>, <<>>)
    /\ log' = IF form_fail
              THEN <<LogRec("Twilio status webhook error", None)>>
              ELSE <<LogRec("Twilio status webhook received", None)>>
    /\ calls' = IF form_fail THEN calls
                ELSE [i \in DOMAIN calls |->
                         [calls[i] EXCEPT !.status = form.CallStatus]]
    /\ UNCHANGED <<api_keys, now, shown, aux>>

\* POST /webhooks/twilio/status
twilio_status_webhook(ip, form, form_fail) ==
    /\ req' = WebhookRequest("twilio_status_webhook", ip, form)
    /\ resp' = IF form_fail THEN Response(200, "error", {}, <<>>, <<>>)
               ELSE Response(200, "success", {}, <<>>, <<>>)
    /\ log' = IF form_fail
              THEN <<LogRec("Twilio status webhook error", None)>>
              ELSE <<LogRec("Twilio status webhook received", None)>>
    /\ UNCHANGED <<api_keys, calls, now, shown, aux>>

\* POST /webhooks/twilio/recording
twilio_recording_webhook(ip, form, form_fail) ==
    /\ req' = WebhookRequest("twilio_recording_webhook", ip, form)
    /\ resp' = IF form_fail THEN Response(200, "error", {}, <<>>, <<>>)
               ELSE Response(200, "success", {}, <<>>, <<>>)
    /\ log' = IF form_fail
              THEN <<LogRec("Twilio recording webhook error", None)>>
              ELSE <<LogRec("Twilio recording webhook received", None)>>
    /\ UNCHANGED <<api_keys, calls, now, shown, aux>>

WebhooksRequest ==
    \E ip \in IPs, form \in Forms, form_fail \in BOOLEAN :
        \/ twilio_voice_webhook(ip, form, form_fail)
        \/ twilio_status_webhook(ip, form, form_fail)
        \/ twilio_recording_webhook(ip, form, form_fail)

\* the management API of calls and the webhooks, with one key stored
InitWebhooks ==
    /\ api_keys = <<APIKey("k1", "acme", None, 0)>>
    /\ calls = <<>>
    /\ now = 0
    /\ req = Request("none", None, "", "none", FALSE, None)
    /\ resp = Response(0, "", {}, <<>>, <<>>)
    /\ log = <<>>
    /\ shown = <<1>>
    /\ is_valid_result = None
    /\ identifier = None
    /\ served = [id \in Identities |-> 0]
    /\ hits = [id \in Identities |-> 0]
    /\ settings = DefaultSettings
    /\ provider = NewProvider("none")
    /\ agent = NoInvocation
    /\ InitMore

NextWebhooks == Tick \/ CallsRequest \/ WebhooksRequest

SpecWebhooks == InitWebhooks /\ [][NextWebhooks]_vars

\* ================================================================ claims
CallOps == {"create_call", "get_call", "list_calls", "hangup_call"}

\* the validity predicate as the specification states it
ValidAt(k, t) ==
    k.is_active /\ (k.expires_at = None \/ t <= Val(k.expires_at))

\* a step that handles a request of the call router (only the clock
\* actions change now)
CallStep == now' = now /\ req'.op \in CallOps

\* the stored key the header of request q names, 0 when there is none
NamedKey(q) ==
    IF q.header # None /\ Val(q.header) # ""
          /\ \E i \in 1..Len(api_keys) : api_keys[i].key = Val(q.header)
    THEN CHOOSE i \in 1..Len(api_keys) : api_keys[i].key = Val(q.header)
    ELSE 0

\* C1: is_valid() returns true iff is_active is true and expires_at is
\* absent or the current time is not after it; an inactive key is invalid
\* whatever its expiry and an active key past its expiry is invalid.
C1_IsValidIff ==
    is_valid_result # None =>
        LET k == api_keys[1] IN
        /\ Val(is_valid_result) <=> ValidAt(k, now)
        /\ ~k.is_active => Val(is_valid_result) = FALSE
        /\ (k.is_active /\ k.expires_at # None /\ Val(k.expires_at) < now)
              => Val(is_valid_result) = FALSE

\* is_valid() was applied to an active key whose expiry is in the past
C1_ExpiredActiveKeyChecked ==
    /\ is_valid_result = Some(FALSE)
    /\ api_keys[1].is_active
    /\ api_keys[1].expires_at # None
    /\ Val(api_keys[1].expires_at) < now

C4_LastUsedOnlyBySuccessfulAuth ==
    [][/\ \A i \in 1..Len(api_keys) :
            api_keys'[i].last_used_at # api_keys[i].last_used_at =>
                /\ CallStep
                /\ req'.admitted
                /\ NamedKey(req') = i
                /\ api_keys'[i].last_used_at = Some(now)
       /\ (CallStep /\ req'.admitted) =>
            api_keys'[NamedKey(req')].last_used_at = Some(now)
       /\ (CallStep /\ ~req'.admitted) => api_keys' = api_keys
    ]_vars

\* the second of two keys has authenticated, the first never has
C4_SecondKeyUsed ==
    /\ Len(api_keys) = 2
    /\ req.op \in CallOps
    /\ req.admitted
    /\ NamedKey(req) = 2
    /\ api_keys[2].last_used_at = Some(now)
    /\ api_keys[1].last_used_at = None
\* C5: once Auth has validated a key named N for a request, the request's
\* state carries the resolved key, so that the rate-limit identity of that
\* request is apikey:N and not ip:<address>.
C5_StateCarriesResolvedKey ==
    (req.op \in CallOps /\ req.admitted) =>
        /\ req.state_api_key # None
        /\ get_identifier(req.state_api_key, req.ip)
              = "apikey:" \o api_keys[NamedKey(req)].name

\* C6: get_identifier returns exactly apikey:<key name> when the request
\* state carries a resolved key and exactly ip:<remote address> when it
\* carries none, whatever the rest of the request is.
C6_IdentifierIsNameOrAddress ==
    identifier # None =>
        /\ req.state_api_key # None =>
              Val(identifier) = "apikey:" \o Val(req.state_api_key).name
        /\ req.state_api_key = None => Val(identifier) = "ip:" \o req.ip

\* the identity of a request that carries the key named acme and the
\* secret of another request's header was computed
C6_KeyedIdentityComputed ==
    /\ identifier = Some("apikey:acme")
    /\ req.state_api_key # None
    /\ req.header # Some(Val(req.state_api_key).key)

\* C7: at most PerMinute requests of one identity are served within one
\* fixed one-minute window; each further request of the window is answered
\* 429 and does not reach its handler (the hourly limit is the same rule
\* over a longer window).
C7_AtMostPerMinuteServed ==
    /\ \A id \in Identities : served[id] <= PerMinute
    /\ (req.op = "health_check" /\ resp.status = 200) =>
          served[get_identifier(req.state_api_key, req.ip)] <= PerMinute

\* a rejection of a call request by Auth with status 401
AuthRejected401(q, r) == q.op \in CallOps /\ ~q.admitted /\ r.status = 401

\* C8: two requests that differ only in why the key is rejected receive
\* the same 401 response (status, body and headers).
C8_SameRejection ==
    [][(AuthRejected401(req, resp) /\ AuthRejected401(req', resp')
            /\ req'.op = req.op /\ req'.ip = req.ip)
        => resp' = resp]_vars

DeactivationIsLocalAndFinal ==
    /\ (now' = now /\ req'.op = "deactivate_api_key" /\ resp'.status = 200) =>
          /\ Len(resp'.keys) = 1
          /\ resp'.keys[1].id \in 1..Len(api_keys)
          /\ api_keys' = [api_keys EXCEPT ![resp'.keys[1].id].is_active = FALSE]
    /\ Len(api_keys') >= Len(api_keys)
    /\ \A i \in 1..Len(api_keys) :
          /\ api_keys'[i].key = api_keys[i].key
          /\ ~api_keys[i].is_active => ~api_keys'[i].is_active

\* a call request that names a stored key which is inactive
NamesInactiveKey ==
    /\ CallStep
    /\ NamedKey(req') # 0
    /\ ~api_keys[NamedKey(req')].is_active

\* C10 as stated: deactivation is local and final, and every later
\* authentication with the key is rejected with 401.
C10_DeactivatedKeyGets401 ==
    [][/\ DeactivationIsLocalAndFinal
       /\ NamesInactiveKey => (~req'.admitted /\ resp'.status = 401)
    ]_vars

\* C10 amended: deactivation is local and final, and every later
\* authentication with the key is rejected: with 401, or with 500 when the
\* store fails while Auth looks the key up.
C10_DeactivatedKeyRejected ==
    [][/\ DeactivationIsLocalAndFinal
       /\ NamesInactiveKey =>
            /\ ~req'.admitted
            /\ resp'.status = IF req'.fault = "execute" THEN 500 ELSE 401
    ]_vars

\* a key that had authenticated before was deactivated, and a request
\* carrying it was answered 401 while the other key stayed active
C10_UsedKeyDeactivatedAndRejected ==
    /\ Len(api_keys) = 2
    /\ req.op \in CallOps
    /\ NamedKey(req) = 1
    /\ ~api_keys[1].is_active
    /\ api_keys[1].last_used_at # None
    /\ api_keys[2].is_active
    /\ resp.status = 401

\* C11: a Call created through the management endpoint is persisted with
\* status initiated, direction outbound and the requested phone number;
\* hanging up an existing Call leaves it with status completed and an
\* ended_at that is present and strictly after its created_at.
C11_CallLifecycle ==
    [][/\ (CallStep /\ req'.op = "create_call" /\ resp'.status = 200) =>
            /\ Len(calls') = Len(calls) + 1
            /\ SubSeq(calls', 1, Len(calls)) = calls
            /\ LET c == calls'[Len(calls')] IN
               /\ c.status = "initiated"
               /\ c.direction = "outbound"
               /\ c.phone_number \in Phones
               /\ resp'.calls = <<CallResponse(Len(calls'), c)>>
       /\ (CallStep /\ req'.op = "hangup_call" /\ resp'.status = 200) =>
            LET c == calls'[Val(req'.id)] IN
            /\ c.status = "completed"
            /\ c.ended_at # None
            /\ Val(c.ended_at) > c.created_at
    ]_vars

\* the id-addressed management operations
KeyIdOps == {"get_api_key_by_id", "deactivate_api_key"}
CallIdOps == {"get_call", "hangup_call"}

\* a step that handles an id-addressed request whose id names no stored
\* record
UnknownIdStep ==
    /\ now' = now
    /\ req'.op \in KeyIdOps \cup CallIdOps
    /\ Val(req'.id) > (IF req'.op \in KeyIdOps THEN Len(api_keys)
                                                ELSE Len(calls))

\* the response to a failure of the store inside a handler
StoreFailure(r) ==
    r.status = 500 /\ r.detail \in {"db error", "Internal server error"}

\* C12 as stated: every id-addressed management operation invoked with an
\* id that names no stored record answers 404 and leaves every stored
\* record unchanged (read for the requests whose handler ran and found
\* the store working).
C12_UnknownIdIs404Unchanged ==
    [][(UnknownIdStep /\ req'.admitted /\ ~StoreFailure(resp')) =>
          (resp'.status = 404 /\ api_keys' = api_keys /\ calls' = calls)
    ]_vars

\* C12 amended: such a request, once Auth (where the route has it) has
\* admitted it, answers 404, or 500 when the store fails; it leaves every
\* Call and every API key unchanged except last_used_at of the key that
\* authenticated the request; a request Auth rejects changes nothing.
C12_UnknownIdAnswered ==
    [][UnknownIdStep =>
          /\ calls' = calls
          /\ req'.admitted => (resp'.status = 404 \/ StoreFailure(resp'))
          /\ req'.op \in KeyIdOps => (req'.admitted /\ api_keys' = api_keys)
          /\ (req'.op \in CallIdOps /\ req'.admitted) =>
                api_keys' = [api_keys EXCEPT
                                ![NamedKey(req')].last_used_at = Some(now)]
          /\ ~req'.admitted =>
                (api_keys' = api_keys /\ resp'.status \in {401, 500})
    ]_vars

\* an admitted hang-up of an id that names no call was answered 404 and
\* the key that authenticated it carries the time of the request
C12_UnknownCallHangup404 ==
    /\ req.op = "hangup_call"
    /\ req.admitted
    /\ Val(req.id) > Len(calls)
    /\ resp.status = 404
    /\ api_keys[NamedKey(req)].last_used_at = Some(now)

\* C13: every HTTP response the application sends, whatever path the
\* request took (success, 401, 404, 500 from the catch-all handler, CORS
\* preflight), carries X-Content-Type-Options: nosniff and X-Frame-Options:
\* DENY, carries Strict-Transport-Security exactly when the environment is
\* not development, and carries the no-store Cache-Control when the path
\* begins with /api/.
C13_SecurityHeadersOnEveryResponse ==
    resp.status # 0 =>
        /\ NoSniff \in resp.hdrs
        /\ FrameDeny \in resp.hdrs
        /\ HSTS \in resp.hdrs <=> settings.app_env # "development"
        /\ StartsWithApi(req.path) => CacheControl \in resp.hdrs

\* the text a client can read in the body of response r
BodyText(r) == {r.detail, r.message}

\* C14: a request that meets an unhandled or unexpected failure is
\* answered 500, and the body contains the underlying error text only in
\* the development environment; elsewhere the body is the same generic
\* message whatever the error was, for every endpoint.
C14_ErrorTextOnlyInDevelopment ==
    (resp.status # 0 /\ req.error # None) =>
        /\ resp.status = 500
        /\ Val(req.error) \in BodyText(resp)
              => settings.app_env = "development"
        /\ settings.app_env # "development"
              => BodyText(resp) \cap Errors = {}

\* unhealthy is worse than degraded, which is worse than healthy
Rank(status) ==
    IF status = "unhealthy" THEN 2 ELSE IF status = "degraded" THEN 1 ELSE 0

\* the worst status among the components of body b
WorstOf(b) ==
    CHOOSE st \in {b.components[i].status : i \in 1..Len(b.components)} :
        \A i \in 1..Len(b.components) :
            Rank(b.components[i].status) <= Rank(st)

\* C15: detailed health is unhealthy whenever the database check fails,
\* whatever the cache does; degraded when the database check succeeds,
\* the cache is enabled and its ping fails; healthy otherwise; a disabled
\* cache is reported as a healthy component and never lowers the
\* aggregate; the aggregate equals the worst component status.
C15_DetailedHealthAggregate ==
    req.op = "detailed_health_check" =>
        LET b == resp.body
            cache_failed == req.cache # None /\ ~Val(req.cache).ok
        IN
        /\ b.status = IF ~req.db.ok THEN "unhealthy"
                      ELSE IF cache_failed THEN "degraded"
                      ELSE "healthy"
        /\ Len(b.components) = 2
        /\ b.components[1].name = "database"
        /\ b.components[1].status =
              (IF req.db.ok THEN "healthy" ELSE "unhealthy")
        /\ b.components[2].name = "cache"
        /\ b.components[2].status =
              (IF cache_failed THEN "degraded" ELSE "healthy")
        /\ ~settings.cache_enabled =>
              (req.cache = None /\ b.components[2].status = "healthy")
        /\ b.status = WorstOf(b)

\* both the database check and the ping of an enabled cache failed
C15_DatabaseAndCacheFailed ==
    /\ req.op = "detailed_health_check"
    /\ ~req.db.ok
    /\ req.cache # None
    /\ ~Val(req.cache).ok
    /\ resp.body.status = "unhealthy"

\* the mapping as the specification tabulates it
StatedStatus(v) ==
    CASE v = "queued" -> "initiated"
      [] v = "ringing" -> "ringing"
      [] v = "in-progress" -> "in_progress"
      [] v = "completed" -> "completed"
      [] v = "failed" -> "failed"
      [] v = "busy" -> "busy"
      [] v = "no-answer" -> "no_answer"
      [] v = "canceled" -> "canceled"
      [] OTHER -> "failed"

\* C16: the Twilio status mapping is total: queued, ringing, in-progress,
\* completed, failed, busy, no-answer, canceled map to initiated, ringing,
\* in_progress, completed, failed, busy, no_answer, canceled, and every
\* other vendor status string maps to failed.
C16_TwilioStatusMapping ==
    (req.op = "twilio_get_call" /\ resp.kind = "return") =>
        /\ resp.value.status = StatedStatus(req.twilio_status)
        /\ resp.value.status \in CallStatus

\* a call object with a status the vendor does not document was mapped
C16_UnknownStatusMapped ==
    /\ req.op = "twilio_get_call"
    /\ req.twilio_status = "answered"
    /\ resp.kind = "return"
    /\ resp.value.status = "failed"

\* message m requests at least one tool
RequestsTools(m) == "tool_calls" \in DOMAIN m /\ Len(m.tool_calls) >= 1
LastMessage(a) == a.state.messages[Len(a.state.messages)]

\* C17: the graph starts in AGENT; after AGENT the next state is TOOLS
\* exactly when the most recent message has a non-empty tool-call list and
\* the terminal state otherwise, also when the message has no tool-call
\* attribute or an empty list; after TOOLS the next state is always AGENT;
\* no other transition exists.
C17_GraphTransitions ==
    [][/\ (agent.status = "idle" /\ agent' # agent) => agent'.node = "agent"
       /\ (agent.node = "agent" /\ agent'.step = agent.step + 1) =>
             agent'.node = IF RequestsTools(LastMessage(agent')) THEN "tools"
                           ELSE "END"
       /\ (agent.node = "tools" /\ agent'.step = agent.step + 1) =>
             agent'.node = "agent"
       /\ agent'.node # agent.node =>
             <<agent.node, agent'.node>> \in
                {<<"START", "agent">>, <<"agent", "tools">>,
                 <<"agent", "END">>, <<"tools", "agent">>}
    ]_vars

\* the graph went through TOOLS and back to AGENT, and a reply with an
\* empty tool-call list then ended it
C17_ToolRoundThenEnd ==
    /\ agent.node = "END"
    /\ Len(agent.state.messages) >= 4
    /\ "tool_calls" \in DOMAIN LastMessage(agent)
    /\ LastMessage(agent).tool_calls = <<>>

\* the parts of C18 about a returned state: its last message is a model
\* reply that requests no tool, and it holds the whole history, starting
\* with the caller's message, and the ids passed in
ReturnedStateIsFinal ==
    agent.status = "returned" =>
        /\ LastMessage(agent) \in Replies
        /\ ~RequestsTools(LastMessage(agent))
        /\ agent.state.messages[1] = HumanMessage(agent.input[1])
        /\ Len(agent.state.messages) >= 1 + agent.step
        /\ agent.state.customer_id = agent.input[2]
        /\ agent.state.call_id = agent.input[3]

\* a reply without tool requests ends the invocation at once
ReplyWithoutToolsEnds ==
    (agent.status = "running" /\ Len(agent.state.messages) > 1) =>
        \/ LastMessage(agent).type = "tool"
        \/ RequestsTools(LastMessage(agent))

ToolFailedInside ==
    /\ req.op = "tool"
    /\ \/ req.tool \in {"get_customer_info", "create_claim"}
       \/ /\ req.tool = "get_call_history"
          /\ \/ req.args.fault = "first query"
             \/ req.args.call_id = None
             \/ /\ req.args.call_id # None
                /\ Val(req.args.call_id) \in 1..Len(calls)
                /\ \/ req.args.fault = "second query"
                   \/ req.args.conversation # None

\* C19: each of the five agent tools returns a structured result for every
\* input and every internal failure, a failing store included: the caller
\* never sees an exception, the result is a map, and the result of a
\* failed call contains the key error.
C19_ToolsReturnErrorMaps ==
    req.op = "tool" =>
        /\ resp.kind = "return"
        /\ DOMAIN resp.value # {}
        /\ ToolFailedInside => "error" \in DOMAIN resp.value

\* the store failed under get_call_history and the tool returned an error
\* map
C19_StoreFailedUnderTool ==
    /\ req.op = "tool"
    /\ req.tool = "get_call_history"
    /\ req.args.fault = "second query"
    /\ req.args.call_id = Some(1)
    /\ Len(calls) = 1
    /\ resp.kind = "return"
    /\ "error" \in DOMAIN resp.value

\* C20: for every STT, TTS and telephony provider, initialize on an
\* already-initialised provider is a no-op: it returns without raising,
\* creates no new client or model and leaves the provider's state as it
\* was, so initialize followed by initialize leaves what a single
\* initialize leaves.
C20_InitializeIdempotent ==
    /\ [][(req'.op = "initialize" /\ provider._initialized) =>
             /\ provider' = provider
             /\ provider'.created = provider.created
             /\ resp' = Returns(None)]_vars
    /\ [](provider.kind \in Kinds \ {"whisper"} =>
             \A fail \in BOOLEAN, again \in BOOLEAN :
                 LET once == initialize(provider, fail) IN
                 ~once.raised =>
                     initialize(once.provider, again) = once)

\* initialize was called on a provider that was initialised and held its
\* first client
C20_InitializeCalledTwice ==
    /\ req.op = "initialize"
    /\ req.was._initialized
    /\ req.was.client = Some(1)
    /\ provider = req.was
    /\ provider.created = 1
    /\ resp = Returns(None)

\* the last candidate the accessor tried
LastAttempt == access.attempts[Len(access.attempts)]

StatedOrder ==
    IF access.family = "stt"
    THEN <<settings.stt_primary_provider>> \o settings.stt_fallback_providers
    ELSE IF access.family = "tts"
    THEN <<settings.tts_primary_provider>> \o settings.tts_fallback_providers
    ELSE <<>>
Succeeded(a) == a.constructed /\ a.initialized /\ a.health = Some(TRUE)

\* C22: the fallback accessor tries the primary first and then the
\* fallbacks in their configured order; the provider returned is the first
\* in that order for which construction, initialize and health check all
\* succeed; any failure of a candidate moves on to the next candidate;
\* after a provider is returned no further candidate is tried or
\* constructed.
C22_FirstSuccessfulInOrder ==
    /\ [](/\ Len(access.attempts) <= Len(StatedOrder)
          /\ \A i \in 1..Len(access.attempts) :
                /\ access.attempts[i].name = StatedOrder[i]
                /\ i < Len(access.attempts) => ~Succeeded(access.attempts[i])
          /\ access.status = "returned" <=>
                (access.attempts # <<>> /\ Succeeded(LastAttempt))
          /\ access.status = "returned" =>
                /\ access.result = LastAttempt.provider
                /\ Val(access.result).kind = LastAttempt.name
          /\ access.status = "trying" =>
                access.next = Len(access.attempts) + 1
          /\ access.status = "raised" =>
                Len(access.attempts) = Len(StatedOrder))
    /\ [][access.status \in {"returned", "raised"} => access' = access]_vars

\* the primary could not be initialised, the first fallback is not
\* implemented, the second fallback was returned
C22_SecondFallbackReturned ==
    /\ access.status = "returned"
    /\ access.family = "stt"
    /\ Len(access.attempts) = 3
    /\ access.attempts[1].name = "deepgram"
    /\ access.attempts[1].raised = Some("ProviderError")
    /\ access.attempts[2].raised = Some("NotImplementedError")
    /\ Val(access.result).kind = "whisper"

\* the vendor a factory call selected and the credentials it requires
Selected(q) ==
    IF q.provider_name # None THEN Val(q.provider_name)
    ELSE IF q.family = "stt" THEN settings.stt_primary_provider
    ELSE IF q.family = "tts" THEN settings.tts_primary_provider
    ELSE settings.telephony_provider
RequiredCredentials(family, vendor) ==
    CASE vendor = "deepgram" -> {"deepgram_api_key"}
      [] vendor = "assemblyai" -> {"assemblyai_api_key"}
      [] vendor = "azure" -> {"azure_speech_key", "azure_speech_region"}
      [] vendor = "elevenlabs" -> {"elevenlabs_api_key"}
      [] vendor = "openai" -> {"openai_api_key"}
      [] vendor = "twilio" -> {"twilio_account_sid", "twilio_auth_token"}
      [] OTHER -> {}
CredentialsPresent(family, vendor) ==
    \A c \in RequiredCredentials(family, vendor) :
        settings[c] # None /\ settings[c] # Some("")
Implemented ==
    {<<"stt", "deepgram">>, <<"stt", "whisper">>, <<"tts", "elevenlabs">>,
     <<"tts", "openai">>, <<"telephony", "twilio">>}
RaisedOfType(r, type) == r.kind = "raise" /\ r.value.type = type

\* C23 as stated: a factory returns an instance only for an implemented
\* vendor whose credentials are present; absent credentials raise
\* provider-not-available; every selection of an unimplemented vendor
\* raises not-implemented.
C23_UnimplementedAlwaysNotImplemented ==
    req.op = "get_provider" =>
        LET vendor == Selected(req) IN
        /\ resp.kind = "return" =>
              /\ <<req.family, vendor>> \in Implemented
              /\ CredentialsPresent(req.family, vendor)
        /\ ~CredentialsPresent(req.family, vendor) =>
              RaisedOfType(resp, "ProviderNotAvailableError")
        /\ <<req.family, vendor>> \notin Implemented =>
              RaisedOfType(resp, "NotImplementedError")

\* C23: a factory returns an instance, of the selected vendor and not yet
\* initialised, exactly for an implemented vendor whose credentials are
\* present; a vendor whose required credentials are absent raises
\* provider-not-available, implemented or not; an unimplemented vendor
\* whose credentials are present, or which requires none, raises
\* not-implemented.
C23_FactoryOutcome ==
    req.op = "get_provider" =>
        LET vendor == Selected(req) IN
        IF ~CredentialsPresent(req.family, vendor)
        THEN RaisedOfType(resp, "ProviderNotAvailableError")
        ELSE IF <<req.family, vendor>> \notin Implemented
        THEN RaisedOfType(resp, "NotImplementedError")
        ELSE resp = Returns(NewProvider(vendor))

\* AssemblyAI was selected with its key configured
C23_AssemblyAIWithKey ==
    /\ req.op = "get_provider"
    /\ req.family = "stt"
    /\ req.provider_name = Some("assemblyai")
    /\ settings.assemblyai_api_key = Some("secret")
    /\ RaisedOfType(resp, "NotImplementedError")

\* the messages sent while inbound message n was handled, in order
RECURSIVE CausedBy(_, _)
CausedBy(out, n) ==
    IF out = <<>> THEN <<>>
    ELSE (IF Head(out).cause = n THEN <<Head(out)>> ELSE <<>>)
         \o CausedBy(Tail(out), n)

\* the message read last on the direct endpoint is of one of the types
DirectLast(types) ==
    /\ conn.endpoint = "direct"
    /\ req.op = "ws_message"
    /\ req.type \in types
\* its handling is over
Handled == conn.turn = None
\* the session, both providers and the agent of the handler exist
Constructed ==
    /\ conn.session_id # None
    /\ conn.stt_provider # None
    /\ conn.tts_provider # None
    /\ conn.agent # None

\* C24 as stated: on the direct endpoint every init message is answered
\* with exactly one ready message carrying its session id, sent only
\* after the STT provider, the TTS provider and the agent have been
\* constructed, and the read loop goes on.
C24_EveryInitAnsweredReady ==
    DirectLast({Some("init")}) =>
        /\ conn.status # "failed"
        /\ Constructed
        /\ Handled =>
              CausedBy(conn.out, req.n)
                 = <<[type |-> "ready",
                      session_id |-> Get(req.session_id, "unknown"),
                      cause |-> req.n]>>

\* C24: an init message for which both provider factories return is
\* answered with exactly one ready message carrying its session id
\* ("unknown" when it has none), sent only after the STT provider, the TTS
\* provider and the agent have been constructed, and the read loop goes
\* on; an init message for which a factory raises is answered with
\* nothing and ends the read loop.
C24_InitAnsweredReadyWhenConstructed ==
    DirectLast({Some("init")}) =>
        IF get_stt_provider(None).kind = "return"
           /\ get_tts_provider(None).kind = "return"
        THEN /\ conn.status # "failed"
             /\ Constructed
             /\ conn.agent = Some(req.n)
             /\ ~Handled => CausedBy(conn.out, req.n) = <<>>
             /\ Handled =>
                   CausedBy(conn.out, req.n)
                      = <<[type |-> "ready",
                           session_id |-> Get(req.session_id, "unknown"),
                           cause |-> req.n]>>
        ELSE /\ conn.status = "failed"
             /\ Handled
             /\ conn.agent = None
             /\ CausedBy(conn.out, req.n) = <<>>

\* two init messages were answered, each with its own ready message, on a
\* connection that is still open
C24_SecondInitAnswered ==
    /\ DirectLast({Some("init")})
    /\ conn.status = "open"
    /\ Handled
    /\ req.n = 2
    /\ Len(conn.out) = 2
    /\ conn.out[1].type = "ready"
    /\ conn.out[1].session_id = "test-123"
    /\ conn.out[2].type = "ready"
    /\ conn.out[2].session_id = "unknown"

\* the shape of the messages one turn sends
Streamed == {"text_chunk", "tool_start", "tool_end"}
Terminal == {"response_complete", "error"}
\* ms is zero or more streamed messages, then at most one terminal one
StreamShape(ms) ==
    \A i \in 1..Len(ms) :
        /\ ms[i].type \in Streamed \cup Terminal
        /\ ms[i].type \in Terminal => i = Len(ms)
        /\ ms[i].type = "text_chunk" => ms[i].content # ""
EndsWithTerminal(ms) == ms # <<>> /\ ms[Len(ms)].type \in Terminal

\* C25: on the direct endpoint the messages sent for one text message are
\* zero or more text_chunk (never with empty content), tool_start and
\* tool_end messages followed by exactly one terminal message,
\* response_complete or error, and nothing after it; for an audio message
\* whose transcript is final and non-empty exactly one transcription
\* message is sent before that sequence, and for a transcript that is not
\* final or is empty nothing is sent.
C25_TurnMessageSequence ==
    LET ms == CausedBy(conn.out, req.n) IN
    /\ DirectLast({Some("text")}) =>
          /\ StreamShape(ms)
          /\ Handled => EndsWithTerminal(ms)
          /\ ~Handled => ~EndsWithTerminal(ms)
    /\ (DirectLast({Some("audio")}) /\ resp.kind = "return") =>
          IF resp.value.text # "" /\ resp.value.is_final
          THEN /\ ms # <<>>
               /\ ms[1] = [type |-> "transcription",
                           text |-> resp.value.text,
                           confidence |-> resp.value.confidence,
                           cause |-> req.n]
               /\ StreamShape(Tail(ms))
               /\ Handled => EndsWithTerminal(Tail(ms))
               /\ ~Handled => ~EndsWithTerminal(Tail(ms))
          ELSE ms = <<>> /\ Handled

\* an audio message with a final transcript was answered with the
\* transcription, a text chunk, a tool start and response_complete
C25_AudioTurnCompleted ==
    /\ DirectLast({Some("audio")})
    /\ Handled
    /\ LET ms == CausedBy(conn.out, req.n) IN
       /\ Len(ms) = 4
       /\ ms[1].type = "transcription"
       /\ ms[2].type = "text_chunk"
       /\ ms[3].type = "tool_start"
       /\ ms[4].type = "response_complete"

\* C26: on the direct endpoint an exception raised while an audio or text
\* message is handled (one sent before any init included) is reported to
\* the client as one error message carrying the failure description, and
\* the read loop does not end.
C26_HandlingErrorsReported ==
    DirectLast({Some("audio"), Some("text")}) =>
        /\ conn.status # "failed"
        /\ (Handled /\ req.type = Some("audio")
            /\ b64decode(Get(req.data, <<>>)).kind = "raise") =>
              LET ms == CausedBy(conn.out, req.n) IN
              /\ Len(ms) = 1
              /\ ms[1].type = "error"
              /\ ms[1].error = b64decode(Get(req.data, <<>>)).value
        /\ (Handled /\ conn.agent = None /\ req.type = Some("text")) =>
              LET ms == CausedBy(conn.out, req.n) IN
              /\ Len(ms) = 1
              /\ ms[1].type = "error"

\* the types and events the protocols know
KnownTypes == {Some("init"), Some("audio"), Some("text")}
KnownEvents == {Some("start"), Some("media"), Some("stop"), Some("mark")}
UnknownMessage(q) ==
    /\ q.op = "ws_message"
    /\ \/ conn.endpoint = "direct" /\ q.type \notin KnownTypes
       \/ conn.endpoint = "twilio" /\ q.event \notin KnownEvents

\* C27: on both WebSocket endpoints a message whose type or event is not
\* one of the protocol's known values changes no handler state (session,
\* providers, agent, audio buffer), causes no outbound message and does
\* not end the read loop: reading it changes nothing but the count of
\* messages read.
C27_UnknownMessageIgnored ==
    [][(conn'.read = conn.read + 1 /\ UnknownMessage(req')) =>
          conn' = [conn EXCEPT !.read = @ + 1]]_vars

\* Twilio's connected event was read on a connection that had buffered
\* frames, and the connection is as it was
C27_ConnectedEventIgnored ==
    /\ conn.endpoint = "twilio"
    /\ req.op = "ws_message"
    /\ req.event = Some("connected")
    /\ Len(conn.audio_buffer) = 3
    /\ conn.stt_provider # None
    /\ conn.status = "open"
    /\ conn.out = <<>>

\* C28: within one WebSocket connection events are handled strictly in
\* arrival order and one at a time: an event is read only when the
\* handling of the one before it is over, every outbound message is caused
\* by the event read last, and so the outbound messages of different
\* events are never interleaved.
C28_OneEventAtATime ==
    /\ [][conn'.read # conn.read =>
             /\ conn.turn = None
             /\ conn'.read = conn.read + 1
             /\ conn'.out = conn.out]_vars
    /\ [][conn'.out # conn.out =>
             /\ conn.turn # None
             /\ Len(conn'.out) = Len(conn.out) + 1
             /\ SubSeq(conn'.out, 1, Len(conn.out)) = conn.out
             /\ conn'.out[Len(conn'.out)].cause = conn.read]_vars
    /\ [](/\ conn.turn # None => Handling.event = conn.read
          /\ \A i \in 1..Len(conn.out) : \A j \in i..Len(conn.out) :
                conn.out[i].cause <= conn.out[j].cause)

\* three events in a row were answered: init, a text turn, an audio turn
C28_ThreeEventsAnswered ==
    /\ conn.endpoint = "direct"
    /\ conn.turn = None
    /\ conn.read = 3
    /\ CausedBy(conn.out, 1) # <<>>
    /\ Len(CausedBy(conn.out, 2)) >= 2
    /\ Len(CausedBy(conn.out, 3)) >= 2

\* the unit of work of session s has ended
Ended(s) == s.body # "running"

\* C29: every session handed out for a unit of work ends in exactly one
\* of two ways, commit when the unit of work completed normally (a
\* commit that raises counts as an error and is rolled back) or rollback
\* when it raised, and is released afterwards in both cases; no session
\* stays acquired after its unit of work ended.
C29_CommitOrRollbackThenReleased ==
    \A i \in 1..Len(sessions) :
        LET s == sessions[i] IN
        Ended(s) =>
            /\ s.closed
            /\ s.body = "raised" => s.rollback /\ s.commit = "none"
            /\ s.body = "returned" =>
                  /\ s.commit # "none"
                  /\ s.rollback <=> s.commit = "failed"

\* a unit of work that deletes the existing conversation c
DeletesConversation(c) ==
    /\ c \in Ids(orm.conversations)
    /\ orm'.outcome.op = "delete_conversation"
    /\ orm'.outcome.id = c

NoMessageWithoutConversation ==
    \A m \in orm.messages : m.conversation_id \in Ids(orm.conversations)
NoClaimWithoutConversation ==
    \A k \in orm.claims : k.conversation_id \in Ids(orm.conversations)

C30_DeleteWithClaimRefused ==
    /\ orm.outcome.op = "delete_conversation"
    /\ orm.outcome.error = "IntegrityError"
    /\ ClaimOf(orm.outcome.id) # {}
    /\ MessagesOf(orm.outcome.id) # {}

\* a step of the telephony read loop that handles a media event
MediaStep ==
    /\ conn.endpoint = "twilio"
    /\ conn'.read = conn.read + 1
    /\ req'.op = "ws_message"
    /\ req'.event = Some("media")

\* the step buffers one more chunk, or drains ten chunks into exactly one
\* run of the pipeline
BuffersOrDrains ==
    \/ /\ Len(conn'.audio_buffer) = Len(conn.audio_buffer) + 1
       /\ SubSeq(conn'.audio_buffer, 1, Len(conn.audio_buffer))
              = conn.audio_buffer
       /\ conn'.runs = conn.runs
    \/ /\ Len(conn.audio_buffer) + 1 = BufferedFrames
       /\ conn'.audio_buffer = <<>>
       /\ Len(conn'.runs) = Len(conn.runs) + 1
       /\ SubSeq(conn'.runs, 1, Len(conn.runs)) = conn.runs
       /\ Len(conn'.runs[Len(conn'.runs)].chunks) = BufferedFrames
       /\ SubSeq(conn'.runs[Len(conn'.runs)].chunks, 1,
                 Len(conn.audio_buffer)) = conn.audio_buffer

\* the pipeline is started by media steps only, and what a run drained
\* never changes afterwards
RunsOnlyByDraining ==
    /\ Len(conn'.runs) # Len(conn.runs) => MediaStep \/ conn.endpoint = "none"
    /\ \A i \in 1..Len(conn.runs) :
          /\ i <= Len(conn'.runs)
          /\ conn'.runs[i].chunks = conn.runs[i].chunks
          /\ conn'.runs[i].cause = conn.runs[i].cause

\* C31 as stated: the buffer holds fewer than 10 chunks between any two
\* events; each media event appends one chunk, and whenever the buffer
\* reaches 10 chunks it is emptied and the pipeline runs exactly once on
\* the drained chunks, whether or not the pipeline then succeeds.
C31_EveryMediaEventBuffered ==
    /\ [] (Len(conn.audio_buffer) < BufferedFrames)
    /\ [][MediaStep => BuffersOrDrains]_vars
    /\ [][RunsOnlyByDraining]_vars

\* C31 as the handler has it: the buffer holds fewer than 10 chunks
\* between any two events; a media event whose payload the handler can
\* decode appends one chunk, one whose payload it cannot decode appends
\* nothing and runs nothing; whenever the buffer reaches 10 chunks it is
\* emptied and the pipeline runs exactly once on the drained chunks,
\* whether or not the pipeline then succeeds.
C31_DecodedMediaEventBuffered ==
    /\ [] (Len(conn.audio_buffer) < BufferedFrames)
    /\ [][MediaStep =>
             IF b64decode(handle_media_payload(req')).kind = "raise"
             THEN /\ conn'.audio_buffer = conn.audio_buffer
                  /\ conn'.runs = conn.runs
                  /\ conn'.status = "open"
             ELSE BuffersOrDrains]_vars
    /\ [][RunsOnlyByDraining]_vars

\* ten media events were drained into one run that ended with a frame
\* sent, and the buffer is empty
C31_TenChunksDrainedOnce ==
    /\ conn.endpoint = "twilio"
    /\ Len(conn.runs) = 1
    /\ Len(conn.runs[1].chunks) = BufferedFrames
    /\ conn.runs[1].outcome = "sent"
    /\ conn.audio_buffer = <<>>
    /\ conn.read = conn.runs[1].cause

\* C32: for every media event received on the telephony endpoint the
\* bytes appended to the buffer are the base64 decoding of that event's
\* media.payload, so the bytes handed to transcription are the
\* concatenation, in arrival order, of the decoded payloads of the ten
\* drained media events.
C32_BufferedBytesArePayload ==
    /\ [][(MediaStep
           /\ req'.media # None
           /\ Val(req'.media).payload # None
           /\ b64decode(handle_media_payload_of_event(req')).kind = "return") =>
             LET chunk == b64decode(handle_media_payload_of_event(req')).value
                 buffer == Append(conn.audio_buffer, chunk)
             IN IF Len(buffer) < BufferedFrames
                THEN conn'.audio_buffer = buffer
                ELSE /\ conn'.runs # conn.runs
                     /\ conn'.runs[Len(conn'.runs)].chunks = buffer]_vars
    /\ [] (\A i \in 1..Len(conn.runs) :
              conn.runs[i].audio # None =>
                 Val(conn.runs[i].audio) = Join(conn.runs[i].chunks))

\* a step of the telephony read loop that handles a start event
StartStep ==
    /\ conn.endpoint = "twilio"
    /\ conn'.read = conn.read + 1
    /\ req'.op = "ws_message"
    /\ req'.event = Some("start")

\* the last call of process_audio
LastRun(c) == c.runs[Len(c.runs)]

\* the agent is invoked in this step
Invokes ==
    /\ conn.endpoint = "twilio"
    /\ conn.runs # <<>>
    /\ Len(conn'.runs) = Len(conn.runs)
    /\ LastRun(conn).invoked = None
    /\ LastRun(conn').invoked # None

\* an outbound message is sent in this step
SendsFrame == conn.endpoint = "twilio" /\ conn'.out # conn.out

\* C33: on the telephony endpoint the agent is invoked only with a
\* transcript that is non-empty and final and with the call id of the
\* start event; an outbound media frame is sent only after such an
\* invocation and a successful synthesis of its reply, at most one per
\* drained buffer, carrying the stream id of the start event; no outbound
\* frame is sent before a start event has been handled.
C33_InvokedAndAnsweredAfterStart ==
    /\ [][StartStep =>
             /\ conn'.call_sid = Get(req'.start, [callSid |-> None]).callSid
             /\ conn'.stream_sid
                    = Get(req'.start, [streamSid |-> None]).streamSid]_vars
    /\ [][(conn.endpoint = "twilio"
           /\ (conn'.call_sid # conn.call_sid
               \/ conn'.stream_sid # conn.stream_sid
               \/ conn'.agent # conn.agent)) => StartStep]_vars
    /\ [][Invokes =>
             /\ resp'.kind = "return"
             /\ resp'.value.text # ""
             /\ resp'.value.is_final
             /\ Val(LastRun(conn').invoked).message = resp'.value.text
             /\ Val(LastRun(conn').invoked).call_id = conn.call_sid
             /\ conn.agent # None]_vars
    /\ [][SendsFrame =>
             /\ conn'.out = Append(conn.out, conn'.out[Len(conn'.out)])
             /\ conn'.out[Len(conn'.out)].type = "media"
             /\ conn'.out[Len(conn'.out)].streamSid = conn.stream_sid
             /\ conn'.out[Len(conn'.out)].cause = LastRun(conn).cause
             /\ conn.runs # <<>>
             /\ LastRun(conn).invoked # None
             /\ LastRun(conn).outcome = "synthesizing"
             /\ LastRun(conn').outcome = "sent"
             /\ conn.agent # None]_vars
    /\ [] (conn.endpoint = "twilio" =>
             /\ \A i \in 1..Len(conn.runs) :
                   Len(CausedBy(conn.out, conn.runs[i].cause)) <= 1
             /\ Len(conn.out) <= Len(conn.runs))

\* a frame was sent for the first drained buffer, carrying the stream id
\* of the start event, after the agent was invoked with the transcript
\* and the call id of the start event
C33_FrameSentForTranscript ==
    /\ conn.endpoint = "twilio"
    /\ Len(conn.out) = 1
    /\ conn.out[1].streamSid = Some("MZ123")
    /\ conn.runs[1].invoked = Some([message |-> "Hello",
                                    call_id |-> Some("CA123")])
    /\ conn.runs[1].outcome = "sent"
    /\ conn.turn = None
    /\ Len(conn.audio_buffer) = 1

\* the outcomes of a call of process_audio in which a step failed
Failures ==
    {"transcription failed", "agent failed", "synthesis failed",
     "send failed"}

\* a call of process_audio ends in this step because a step of it failed
PipelineFails ==
    /\ conn.endpoint = "twilio"
    /\ conn.runs # <<>>
    /\ Len(conn'.runs) = Len(conn.runs)
    /\ LastRun(conn).outcome \notin Failures
    /\ LastRun(conn').outcome \in Failures

\* a media step whose payload cannot be decoded
DecodingFails ==
    /\ MediaStep
    /\ b64decode(handle_media_payload(req')).kind = "raise"

\* what the handler keeps between events
Attributes(c) ==
    <<c.status, c.stt_provider, c.tts_provider, c.agent, c.stream_sid,
      c.call_sid, c.audio_buffer>>

\* C34: on the telephony endpoint a failure of any pipeline step for one
\* drained buffer (payload decoding, transcription, agent invocation,
\* synthesis, sending) aborts only that pipeline run: the read loop
\* continues, later media events are buffered and processed normally, and
\* the drained audio is neither retried nor put back in the buffer.
C34_FailureAbortsOneRun ==
    /\ [][PipelineFails =>
             /\ conn'.status = "open"
             /\ conn'.turn = None
             /\ conn'.audio_buffer = <<>>
             /\ conn'.out = conn.out
             /\ Attributes(conn') = Attributes(conn)]_vars
    /\ [][DecodingFails =>
             /\ conn'.status = "open"
             /\ conn'.turn = None
             /\ conn'.runs = conn.runs
             /\ Attributes(conn') = Attributes(conn)]_vars
    /\ [][(conn.endpoint = "twilio" /\ conn.runs # <<>>
           /\ LastRun(conn).outcome \in Failures) =>
             \/ conn'.runs = conn.runs
             \/ /\ MediaStep
                /\ BuffersOrDrains
                /\ LastRun(conn').cause > LastRun(conn).cause]_vars
    /\ [] (conn.endpoint = "twilio" =>
             \A i \in 1..Len(conn.runs) : \A j \in 1..Len(conn.runs) :
                i < j => conn.runs[i].cause < conn.runs[j].cause)

\* a first drained buffer failed in transcription and a second one, of
\* ten later media events, was answered with a frame
C34_SecondBufferAnswered ==
    /\ conn.endpoint = "twilio"
    /\ Len(conn.runs) = 2
    /\ conn.runs[1].outcome = "transcription failed"
    /\ conn.runs[2].outcome = "sent"
    /\ Len(conn.out) = 1
    /\ conn.out[1].cause = conn.runs[2].cause

\* C35: when the consumer of Deepgram transcribe_stream stops (the
\* sentinel was received, the consumer closed the sequence early, or an
\* exception occurred), the audio-forwarding task is cancelled and its
\* completion awaited before transcribe_stream returns: no forwarding
\* task of that stream is still running afterwards, and no audio is sent
\* to the vendor after that point.
C35_ForwardingEndsBeforeReturn ==
    /\ [] (stream.provider = "deepgram" =>
             /\ stream.status \in {"stopping", "returned"} =>
                   stream.stream_task # "running"
             /\ stream.status = "returned" =>
                   /\ stream.cause \in {"sentinel", "aclose", "exception"}
                   /\ stream.stream_task \in {"finished", "cancelled"}
                   /\ stream.sent = stream.sent_at_return)
    /\ [][(stream.provider = "deepgram"
           /\ stream.status \in {"stopping", "returned"}) =>
             stream'.sent = stream.sent]_vars

\* the consumer closed the sequence after one result while a chunk was
\* still to be forwarded; the task was cancelled and transcribe_stream
\* has returned
C35_ClosedEarlyWhileForwarding ==
    /\ stream.provider = "deepgram"
    /\ stream.status = "returned"
    /\ stream.cause = "aclose"
    /\ stream.stream_task = "cancelled"
    /\ stream.audio_stream > 0
    /\ stream.sent > 0

\* the items transcribe_stream takes no more: the sentinels
Sentinels(s) == {i \in 1..Len(s) : s[i].kind = "sentinel"}

\* the transcript events that arrived while the vendor's connection
\* had reported no error and was not closed
RECURSIVE ArrivedOpen(_)
ArrivedOpen(arrived) ==
    IF arrived = <<>> THEN <<>>
    ELSE IF Head(arrived).vendor = "open"
    THEN <<Head(arrived).n>> \o ArrivedOpen(Tail(arrived))
    ELSE ArrivedOpen(Tail(arrived))

\* s is a prefix of u
IsPrefix(s, u) == Len(s) <= Len(u) /\ SubSeq(u, 1, Len(s)) = s

\* C36: in Deepgram transcribe_stream every vendor transcript event with
\* non-empty text that arrives before the vendor connection reports an
\* error or closes is yielded to the consumer, in arrival order; the
\* result sequence ends only when a sentinel caused by a vendor error or
\* by connection close is dequeued, and no result is yielded after the
\* sentinel.
C36_TranscriptsYieldedUntilVendorEnds ==
    /\ [] (stream.provider = "deepgram" =>
             /\ \A i \in 1..Len(stream.yielded) :
                   /\ i <= Len(stream.arrived)
                   /\ stream.yielded[i] = stream.arrived[i].n
             /\ stream.cause = "sentinel" =>
                   /\ stream.vendor \in {"error", "closed"}
                   /\ IsPrefix(ArrivedOpen(stream.arrived), stream.yielded))
    /\ [][(stream.provider = "deepgram"
           /\ stream.status \in {"stopping", "returned"}) =>
             stream'.yielded = stream.yielded]_vars

\* the bytes of the chunks read so far, in order
Consumed(s) == Join(SubSeq(s.audio_stream, 1, s.read))

\* C37: Whisper transcribe_stream transcribes the buffered bytes each
\* time the buffer holds at least sample_rate*2*5 bytes and then resets
\* the buffer, and at the end of the input transcribes a remaining
\* non-empty buffer; the chunks passed to transcribe, concatenated in
\* order, are exactly the input bytes, each byte once; only results with
\* non-empty text are yielded, in chunk order.
C37_EveryByteTranscribedOnce ==
    /\ [] (stream.provider = "whisper" =>
             /\ Len(stream.buffer) < stream.chunk_size
             /\ stream.status = "streaming" =>
                   Join(stream.transcribed) \o stream.buffer
                      = Consumed(stream)
             /\ \A i \in 1..Len(stream.transcribed) :
                   \/ Len(stream.transcribed[i]) >= stream.chunk_size
                   \/ /\ i = Len(stream.transcribed)
                      /\ stream.read = Len(stream.audio_stream)
                      /\ stream.transcribed[i] # <<>>
             /\ stream.status = "finished" =>
                   /\ Join(stream.transcribed) = Join(stream.audio_stream)
                   /\ \A b \in 1..Len(Join(stream.audio_stream)) :
                         Cardinality({i \in 1..Len(Join(stream.transcribed)) :
                                        Join(stream.transcribed)[i] = b}) = 1
             /\ \A i \in 1..Len(stream.yielded) :
                   /\ stream.yielded[i].text # ""
                   /\ stream.yielded[i].text
                         = stream.texts[stream.yielded[i].chunk]
                   /\ \A j \in 1..Len(stream.yielded) :
                         i < j => stream.yielded[i].chunk
                                     < stream.yielded[j].chunk
             /\ stream.status = "finished" =>
                   \A k \in 1..Len(stream.texts) :
                      stream.texts[k] # "" =>
                         \E i \in 1..Len(stream.yielded) :
                            stream.yielded[i].chunk = k)

\* an input of three chunks was transcribed in two parts, the second one
\* the remaining data at the end, and both results were yielded
C37_TwoPartsAndRemainder ==
    /\ stream.provider = "whisper"
    /\ stream.status = "finished"
    /\ Len(stream.audio_stream) = 3
    /\ Len(stream.transcribed) = 2
    /\ Len(stream.transcribed[1]) > stream.chunk_size
    /\ Len(stream.transcribed[2]) < stream.chunk_size
    /\ Len(stream.yielded) = 2

\* C38: get_tts_provider_with_fallback and get_stt_provider_with_fallback
\* are the same algorithm: given the same construction, initialize and
\* health-check outcomes for the primary and for each fallback position,
\* both return the provider at the same position of the chain or both
\* raise provider-not-available, after the same sequence of attempts.
C38_AccessorsAgree ==
    access.family = "both" =>
       /\ access.stt.status = access.tts.status
       /\ access.stt.next = access.tts.next
       /\ access.stt.attempts = access.tts.attempts
       /\ access.stt.result = access.tts.result
       /\ access.stt.status = "returned" =>
             /\ access.stt.result # None
             /\ Val(access.stt.result) \in 1..access.chain
       /\ access.stt.status = "raised" =>
             /\ access.stt.error = "No STT provider available"
             /\ access.tts.error = "No TTS provider available"
             /\ Len(access.stt.attempts) = access.chain

\* both accessors returned the second fallback: the primary could not be
\* constructed and the first fallback was unhealthy
C38_BothReturnedSecondFallback ==
    /\ access.family = "both"
    /\ access.chain = 3
    /\ access.stt.status = "returned"
    /\ access.tts.status = "returned"
    /\ access.tts.result = Some(3)
    /\ access.tts.attempts[1].made = <<"get_provider">>
    /\ ~access.tts.attempts[2].raised

\* health_check of provider p answers true, for some answer of the vendor
Healthy(p) == \E vendor_ok \in BOOLEAN : provider_health(p, vendor_ok)

\* a call of initialize ends with ProviderError
InitializeRaises ==
    /\ req'.op \in {"initialize", "load_model"}
    /\ resp'.kind = "raise"

\* what C39 says of health_check, cleanup and the operations
HealthyOnlyInitialised ==
    /\ [] (provider.kind \in Kinds =>
             /\ Healthy(provider) =>
                   provider._initialized /\ provider.client # None
             /\ ~provider._initialized => provider.client = None
             /\ provider.created = 0 => ~Healthy(provider))
    /\ [][(req'.op = "health_check" /\ resp'.value = TRUE) =>
             provider._initialized /\ provider.client # None]_vars
    /\ [][(req'.op = "cleanup" /\ resp'.kind = "return") =>
             /\ provider'.client = None
             /\ ~provider'._initialized
             /\ ~Healthy(provider')]_vars
    /\ [][(/\ req'.op \in {"transcribe", "synthesize", "twilio_get_call"}
           /\ ~provider._initialized) =>
             \/ /\ resp' = ProviderError("Failed to initialize")
                /\ provider' = provider
             \/ /\ provider'._initialized
                /\ provider'.client = Some(provider.created + 1)
                /\ (req'.op # "twilio_get_call" /\ resp'.kind = "return")
                      => resp'.value.client = provider'.client]_vars

Webhooks ==
    {"twilio_voice_webhook", "twilio_status_webhook",
     "twilio_recording_webhook"}

\* C40: after any sequence of management-API and webhook requests, every
\* stored Call has status initiated or completed: create stores
\* initiated, hang up stores completed whatever the current status is (a
\* second hang up succeeds again and re-stamps ended_at), the voice,
\* status and recording webhooks change no Call record, and a Call that
\* is completed never changes status again and is never deleted.
C40_CallsInitiatedOrCompleted ==
    /\ [] (\A i \in 1..Len(calls) :
              calls[i].status \in {"initiated", "completed"})
    /\ [][(now' = now /\ req'.op = "create_call" /\ resp'.status = 200) =>
             /\ Len(calls') = Len(calls) + 1
             /\ SubSeq(calls', 1, Len(calls)) = calls
             /\ calls'[Len(calls')].status = "initiated"]_vars
    /\ [][(now' = now /\ req'.op = "hangup_call" /\ resp'.status = 200) =>
             /\ Val(req'.id) \in 1..Len(calls)
             /\ calls' = [calls EXCEPT
                            ![Val(req'.id)].status = "completed",
                            ![Val(req'.id)].ended_at = Some(now)]]_vars
    /\ [][req'.op \in Webhooks => calls' = calls]_vars
    /\ [][/\ Len(calls') >= Len(calls)
          /\ \A i \in 1..Len(calls) :
                /\ calls'[i].phone_number = calls[i].phone_number
                /\ calls'[i].created_at = calls[i].created_at
                /\ calls[i].status = "completed" =>
                      calls'[i].status = "completed"]_vars

\* a call created at 0 was hung up again at 1, and a status webhook
\* reporting it in progress left it completed with that time
C40_CompletedCallAfterStatusWebhook ==
    /\ req.op = "twilio_status_webhook"
    /\ req.form.CallStatus = "in-progress"
    /\ resp.detail = "success"
    /\ Len(calls) = 1
    /\ calls[1].status = "completed"
    /\ calls[1].created_at = 0
    /\ calls[1].ended_at = Some(1)

====
